---- MODULE Spec2Model ----
(***************************************************************************)
(* Verification model of the proto-types value layer: the normalization,   *)
(* checked-arithmetic and ordering code of Duration, Timestamp, Fraction   *)
(* and Money.                                                              *)
(*                                                                         *)
(* Every operation of the library is a pure function of its operands, so   *)
(* each specification draws the operands in Init and has one action per    *)
(* library operation, which applies the operation and records its outcome. *)
(*                                                                         *)
(* Integer widths are scaled down so that the operand space can be         *)
(* enumerated exhaustively.  The scaling keeps the relations between the   *)
(* widths that the code relies on:                                         *)
(*   - i128 is the double width of i64: I128_MAX = 2*(I64_MAX+1)^2 - 1;    *)
(*   - a fractional field is below its base and the base fits twice in an  *)
(*     i32: 2*(NANOS_PER_SEC-1) <= I32_MAX < 3*NANOS_PER_SEC;              *)
(*   - units*base + nanos, and the sum of two such totals, fit in i128,    *)
(*     while total * scalar may exceed it.                                 *)
(***************************************************************************)
EXTENDS Integers, Sequences, FiniteSets, TLC

VARIABLES pc,      \* "start", or the name of the operation that was applied
          build,   \* "debug" (overflow checks on) or "release" (wrapping)
          self,    \* the receiver of the operation
          rhs,     \* the second operand: a value of the same type or a scalar
          result   \* the outcome of the operation

vars == <<pc, build, self, rhs, result>>

(***************************************************************************)
(* Bounds: the scaled widths.                                              *)
(***************************************************************************)
\* largest value of the scaled i64 (the real one is 2^63 - 1)
I64_MAX == 7
\* largest value of the scaled i32 (the real one is 2^31 - 1)
I32_MAX == 9
\* scaled number of nanoseconds per second (the real one is 10^9)
NANOS_PER_SEC == 4

I64_MIN == -I64_MAX - 1
I32_MIN == -I32_MAX - 1
I128_MAX == 2 * (I64_MAX + 1) * (I64_MAX + 1) - 1
I128_MIN == -I128_MAX - 1

I64 == I64_MIN .. I64_MAX
I32 == I32_MIN .. I32_MAX

FitsI64(x) == x >= I64_MIN /\ x <= I64_MAX
FitsI32(x) == x >= I32_MIN /\ x <= I32_MAX
FitsI128(x) == x >= I128_MIN /\ x <= I128_MAX

Builds == {"debug", "release"}

(***************************************************************************)
(* Outcomes: Option / Result values, and a panic.                          *)
(***************************************************************************)
Some(v) == [ok |-> TRUE, val |-> v]
Err(e) == [ok |-> FALSE, err |-> e]
None == Err("None")
Panic == Err("panic")
NoResult == Err("not run")

Scalar(k) == [scalar |-> k]
IsScalar(x) == "scalar" \in DOMAIN x

(***************************************************************************)
(* Integer primitives of the language.                                     *)
(***************************************************************************)
Abs(x) == IF x < 0 THEN -x ELSE x

\* `/` on integers: the quotient truncated toward zero
TruncDiv(a, b) ==
  IF (a >= 0) = (b > 0) THEN Abs(a) \div Abs(b) ELSE -(Abs(a) \div Abs(b))

\* `%` on integers: the remainder has the sign of the dividend
TruncRem(a, b) == a - b * TruncDiv(a, b)

\* `as i32`: truncating cast, wraps modulo the width
CastI32(x) == ((x - I32_MIN) % (2 * (I32_MAX + 1))) + I32_MIN

\* `as i64` / wrapping arithmetic on i64
WrapI64(x) == ((x - I64_MIN) % (2 * (I64_MAX + 1))) + I64_MIN

\* Ord::cmp on integers
cmp(a, b) == IF a < b THEN "Less" ELSE IF a > b THEN "Greater" ELSE "Equal"

\* Ordering::then_with
then_with(first, next) == IF first # "Equal" THEN first ELSE next

(***************************************************************************)
(* Duration                                                                *)
(***************************************************************************)
Dur(s, n) == [seconds |-> s, nanos |-> n]

\* |nanos| below the base, seconds and nanos never of opposite sign
DurationIsNormalized(d) ==
  /\ d.nanos > -NANOS_PER_SEC /\ d.nanos < NANOS_PER_SEC
  /\ ~(d.seconds > 0 /\ d.nanos < 0)
  /\ ~(d.seconds < 0 /\ d.nanos > 0)

NormalizedDurations ==
  {d \in [seconds : I64, nanos : I32] : DurationIsNormalized(d)}

align_signs(s, n) ==
  IF s > 0 /\ n < 0
    THEN IF FitsI64(s - 1) THEN Some(Dur(s - 1, n + NANOS_PER_SEC)) ELSE None
  ELSE IF s < 0 /\ n > 0
    THEN IF FitsI64(s + 1) THEN Some(Dur(s + 1, n - NANOS_PER_SEC)) ELSE None
  ELSE Some(Dur(s, n))

\* the addition with the seconds wrapping instead of failing
checked_add_raw_wrapping(d, rhs_s, rhs_n) ==
  LET s0 == WrapI64(d.seconds + rhs_s)
      n0 == d.nanos + rhs_n
      carry == IF n0 >= NANOS_PER_SEC THEN 1
               ELSE IF n0 <= -NANOS_PER_SEC THEN -1 ELSE 0
      s1 == WrapI64(s0 + carry)
      n1 == n0 - carry * NANOS_PER_SEC
      adj == IF s1 > 0 /\ n1 < 0 THEN -1
             ELSE IF s1 < 0 /\ n1 > 0 THEN 1 ELSE 0
  IN Some(Dur(WrapI64(s1 + adj), CastI32(n1 - adj * NANOS_PER_SEC)))

checked_add_raw(d, rhs_s, rhs_n) ==
  LET s0 == d.seconds + rhs_s
      n0 == d.nanos + rhs_n
      carry == IF n0 >= NANOS_PER_SEC THEN 1
               ELSE IF n0 <= -NANOS_PER_SEC THEN -1 ELSE 0
      s1 == s0 + carry
      n1 == n0 - carry * NANOS_PER_SEC
      adj == IF s1 > 0 /\ n1 < 0 THEN -1
             ELSE IF s1 < 0 /\ n1 > 0 THEN 1 ELSE 0
      s2 == s1 + adj
      n2 == n1 - adj * NANOS_PER_SEC
  IN IF ~FitsI64(s0) THEN None
     ELSE IF ~FitsI64(s1) THEN None
     ELSE IF ~FitsI64(s2) THEN None
     ELSE Some(Dur(s2, CastI32(n2)))

checked_sub_raw(d, rhs_s, rhs_n) ==
  LET s0 == d.seconds - rhs_s
      n0 == d.nanos - rhs_n
      carry == IF n0 >= NANOS_PER_SEC THEN 1
               ELSE IF n0 <= -NANOS_PER_SEC THEN -1 ELSE 0
      s1 == s0 + carry
      n1 == n0 - carry * NANOS_PER_SEC
  IN IF ~FitsI64(s0) THEN None
     ELSE IF ~FitsI64(s1) THEN None
     ELSE align_signs(s1, CastI32(n1))

duration_total_nanos(d) == d.seconds * NANOS_PER_SEC + d.nanos

\* the split with the quotient rounded toward minus infinity
from_total_nanos_floor(total) ==
  LET seconds_val == total \div NANOS_PER_SEC
  IN IF FitsI64(seconds_val)
       THEN Some(Dur(seconds_val, CastI32(total % NANOS_PER_SEC)))
       ELSE None

from_total_nanos(total) ==
  LET seconds_val == TruncDiv(total, NANOS_PER_SEC)
      nanos_val == TruncRem(total, NANOS_PER_SEC)
  IN IF FitsI64(seconds_val)
       THEN Some(Dur(seconds_val, CastI32(nanos_val)))
       ELSE None

duration_checked_mul(d, k) ==
  LET total == duration_total_nanos(d) * k
  IN IF FitsI128(total) THEN from_total_nanos(total) ELSE None

duration_checked_add(d, other) == checked_add_raw(d, other.seconds, other.nanos)

duration_checked_sub(d, other) == checked_sub_raw(d, other.seconds, other.nanos)

duration_checked_div(d, k) ==
  IF k = 0 THEN None
  ELSE IF duration_total_nanos(d) = I128_MIN /\ k = -1 THEN None
  ELSE from_total_nanos(TruncDiv(duration_total_nanos(d), k))

(***************************************************************************)
(* Specification of the Duration operations: the operands are any two      *)
(* normalized Durations, or a normalized Duration and an i64 scalar.       *)
(***************************************************************************)
InitDuration ==
  /\ pc = "start"
  /\ build = "release"   \* no Duration operation depends on the build profile
  /\ self \in NormalizedDurations
  /\ rhs \in NormalizedDurations \cup {Scalar(k) : k \in I64}
  /\ result = NoResult

DurationCheckedAdd ==
  /\ pc = "start" /\ ~IsScalar(rhs)
  /\ result' = duration_checked_add(self, rhs)
  /\ pc' = "duration_checked_add"
  /\ UNCHANGED <<build, self, rhs>>

DurationCheckedSub ==
  /\ pc = "start" /\ ~IsScalar(rhs)
  /\ result' = duration_checked_sub(self, rhs)
  /\ pc' = "duration_checked_sub"
  /\ UNCHANGED <<build, self, rhs>>

DurationCheckedMul ==
  /\ pc = "start" /\ IsScalar(rhs)
  /\ result' = duration_checked_mul(self, rhs.scalar)
  /\ pc' = "duration_checked_mul"
  /\ UNCHANGED <<build, self, rhs>>

DurationCheckedDiv ==
  /\ pc = "start" /\ IsScalar(rhs)
  /\ result' = duration_checked_div(self, rhs.scalar)
  /\ pc' = "duration_checked_div"
  /\ UNCHANGED <<build, self, rhs>>

\* every i128 total
Totals == I128_MIN .. I128_MAX

\* d.total_nanos()
DurationTotalNanos ==
  /\ pc = "start"
  /\ result' = Some(duration_total_nanos(self))
  /\ pc' = "duration_total_nanos"
  /\ UNCHANGED <<build, self, rhs>>

\* Duration::from_total_nanos(d.total_nanos())
DurationRoundTrip ==
  /\ pc = "duration_total_nanos"
  /\ rhs' = Scalar(result.val)
  /\ result' = from_total_nanos(result.val)
  /\ pc' = "duration_round_trip"
  /\ UNCHANGED <<build, self>>

\* Duration::from_total_nanos(total) for any total
DurationFromTotalNanos ==
  /\ pc = "start"
  /\ \E total \in Totals :
       /\ rhs' = Scalar(total)
       /\ result' = from_total_nanos(total)
  /\ pc' = "from_total_nanos"
  /\ UNCHANGED <<build, self>>

NextDuration ==
  \/ DurationCheckedAdd
  \/ DurationCheckedSub
  \/ DurationCheckedMul
  \/ DurationCheckedDiv
  \/ DurationTotalNanos
  \/ DurationRoundTrip
  \/ DurationFromTotalNanos

SpecDuration == InitDuration /\ [][NextDuration]_vars

\* the outcome the widened-arithmetic contract prescribes for a total
ExactDurationOutcome(total) ==
  IF FitsI64(TruncDiv(total, NANOS_PER_SEC))
    THEN Some(Dur(TruncDiv(total, NANOS_PER_SEC), TruncRem(total, NANOS_PER_SEC)))
    ELSE None

\* C1: checked_add of two normalized Durations fails exactly when the whole
\* seconds of the exact sum do not fit in an i64, and otherwise returns the
\* normalized Duration whose total nanoseconds is exactly that sum.
C1_CheckedAddExact ==
  pc = "duration_checked_add" =>
    LET exact == duration_total_nanos(self) + duration_total_nanos(rhs)
    IN /\ (result = None) <=> ~FitsI64(TruncDiv(exact, NANOS_PER_SEC))
       /\ result.ok => /\ DurationIsNormalized(result.val)
                       /\ duration_total_nanos(result.val) = exact
       /\ (self = Dur(I64_MAX, 0) /\ rhs = Dur(1, 0)) => result = None

\* a sum that carries out of the nanos, and a sum that overflows, were computed
C1_Witness ==
  /\ pc = "duration_checked_add"
  /\ self = Dur(I64_MAX - 1, NANOS_PER_SEC - 1) /\ rhs = Dur(0, 1)
  /\ result = Some(Dur(I64_MAX, 0))

\* C2: checked_sub of two normalized Durations has the same outcome as
\* from_total_nanos(total_nanos(a) - total_nanos(b)).
C2_CheckedSubIsWidened ==
  pc = "duration_checked_sub" =>
    result = from_total_nanos(duration_total_nanos(self) - duration_total_nanos(rhs))

\* C3: checked_mul returns the Duration whose total is total_nanos(d) * k and
\* fails exactly when the product's seconds do not fit; checked_div fails for
\* k = 0 and otherwise returns total_nanos(d) / k truncated toward zero, with
\* the nanos carrying the sign of the total, failing only when the quotient's
\* seconds do not fit.
C3_CheckedMulDivExact ==
  /\ pc = "duration_checked_mul" =>
       result = ExactDurationOutcome(duration_total_nanos(self) * rhs.scalar)
  /\ pc = "duration_checked_div" =>
       IF rhs.scalar = 0 THEN result = None
       ELSE /\ result =
                 ExactDurationOutcome(TruncDiv(duration_total_nanos(self), rhs.scalar))
            /\ result.ok => DurationIsNormalized(result.val)
            /\ (self = Dur(-1, 0) /\ rhs.scalar = 2) =>
                 result = Some(Dur(0, -(NANOS_PER_SEC \div 2)))

\* a negative Duration was divided, leaving a negative nanos remainder
C3_Witness ==
  /\ pc = "duration_checked_div"
  /\ self = Dur(-1, 0) /\ rhs = Scalar(2)
  /\ result.ok /\ result.val.seconds = 0 /\ result.val.nanos < 0

(***************************************************************************)
(* Timestamp                                                               *)
(***************************************************************************)
Ts(s, n) == [seconds |-> s, nanos |-> n]

NormalizedTimestamps == [seconds : I64, nanos : 0 .. (NANOS_PER_SEC - 1)]

saturating_add(a, b) ==
  IF a + b > I64_MAX THEN I64_MAX ELSE IF a + b < I64_MIN THEN I64_MIN ELSE a + b

saturating_sub(a, b) ==
  IF a - b > I64_MAX THEN I64_MAX ELSE IF a - b < I64_MIN THEN I64_MIN ELSE a - b

\* Duration::normalized: folds the nanos carry into the seconds, saturating
\* at the i64 bounds, then aligns the sign of the nanos with the seconds;
\* `base` is the number of nanos in a second
duration_normalized_base(base, d) ==
  LET big == d.nanos <= -base \/ d.nanos >= base
      s_c == d.seconds + TruncDiv(d.nanos, base)
      c == IF ~big THEN d
           ELSE IF FitsI64(s_c) THEN Dur(s_c, TruncRem(d.nanos, base))
           ELSE IF d.nanos < 0 THEN Dur(I64_MIN, -(base - 1))
           ELSE Dur(I64_MAX, base - 1)
  IN IF c.seconds < 0 /\ c.nanos > 0
       THEN IF FitsI64(c.seconds + 1)
              THEN Dur(c.seconds + 1, c.nanos - base)
              ELSE Dur(c.seconds, base - 1)
     ELSE IF c.seconds > 0 /\ c.nanos < 0
       THEN IF FitsI64(c.seconds - 1)
              THEN Dur(c.seconds - 1, c.nanos + base)
              ELSE Dur(c.seconds, -(base - 1))
     ELSE c

\* with the base of the arithmetic specifications
duration_normalized(d) == duration_normalized_base(NANOS_PER_SEC, d)

\* Timestamp::normalize: folds the nanos carry into the seconds and makes the
\* nanos non-negative, clamping to the representable extreme on overflow
timestamp_normalize(t) ==
  LET big == t.nanos <= -NANOS_PER_SEC \/ t.nanos >= NANOS_PER_SEC
      s_c == t.seconds + TruncDiv(t.nanos, NANOS_PER_SEC)
      c == IF ~big THEN t
           ELSE IF FitsI64(s_c) THEN Ts(s_c, TruncRem(t.nanos, NANOS_PER_SEC))
           ELSE IF t.nanos < 0 THEN Ts(I64_MIN, 0)
           ELSE Ts(I64_MAX, NANOS_PER_SEC - 1)
  IN IF c.nanos < 0
       THEN IF FitsI64(c.seconds - 1)
              THEN Ts(c.seconds - 1, c.nanos + NANOS_PER_SEC)
              ELSE Ts(c.seconds, 0)
     ELSE c

\* i32 `+` / `-`: panics when overflow checks are on, wraps otherwise
timestamp_from_parts(bld, seconds, nanos) ==
  IF FitsI32(nanos) THEN Some(timestamp_normalize(Ts(seconds, nanos)))
  ELSE IF bld = "debug" THEN Panic
  ELSE Some(timestamp_normalize(Ts(seconds, CastI32(nanos))))

\* the subtraction with wrapping seconds
timestamp_sub_duration_wrapping(bld, t, d) ==
  LET duration == duration_normalized(d)
  IN timestamp_from_parts(bld, WrapI64(t.seconds - duration.seconds),
                          t.nanos - duration.nanos)

timestamp_sub_duration(bld, t, d) ==
  LET duration == duration_normalized(d)
  IN timestamp_from_parts(bld, saturating_sub(t.seconds, duration.seconds),
                          t.nanos - duration.nanos)

timestamp_add_duration(bld, t, d) ==
  LET duration == duration_normalized(d)
  IN timestamp_from_parts(bld, saturating_add(t.seconds, duration.seconds),
                          t.nanos + duration.nanos)

(***************************************************************************)
(* Specification of Timestamp +/- Duration: any normalized Timestamp and   *)
(* any normalized Duration, under either build profile.                    *)
(***************************************************************************)
InitTimestamp ==
  /\ pc = "start"
  /\ build \in Builds
  /\ self \in NormalizedTimestamps
  /\ rhs \in NormalizedDurations
  /\ result = NoResult

TimestampAddDuration ==
  /\ pc = "start"
  /\ result' = timestamp_add_duration(build, self, rhs)
  /\ pc' = "timestamp_add_duration"
  /\ UNCHANGED <<build, self, rhs>>

TimestampSubDuration ==
  /\ pc = "start"
  /\ result' = timestamp_sub_duration(build, self, rhs)
  /\ pc' = "timestamp_sub_duration"
  /\ UNCHANGED <<build, self, rhs>>

NextTimestamp == TimestampAddDuration \/ TimestampSubDuration

SpecTimestamp == InitTimestamp /\ [][NextTimestamp]_vars

\* the instant a Timestamp denotes, in nanoseconds
timestamp_total(t) == t.seconds * NANOS_PER_SEC + t.nanos

\* what C4 prescribes for the exact instant `exact`
SaturatedInstant(exact, r) ==
  LET secs == exact \div NANOS_PER_SEC
  IN /\ r.ok
     /\ r.val.nanos >= 0 /\ r.val.nanos < NANOS_PER_SEC
     /\ FitsI64(secs) => r.val = Ts(secs, exact % NANOS_PER_SEC)
     /\ secs > I64_MAX => r.val.seconds = I64_MAX
     /\ secs < I64_MIN => r.val.seconds = I64_MIN

\* C4: for a normalized Timestamp t and a normalized Duration d, t + d and
\* t - d never panic or wrap: the result is the exact instant with
\* 0 <= nanos < 1e9 when its seconds fit in an i64, and otherwise its seconds
\* clamp to i64::MAX (upward) or i64::MIN (downward).
C4_TimestampSaturates ==
  /\ pc = "timestamp_add_duration" =>
       SaturatedInstant(timestamp_total(self) + duration_total_nanos(rhs), result)
  /\ pc = "timestamp_sub_duration" =>
       SaturatedInstant(timestamp_total(self) - duration_total_nanos(rhs), result)

\* Timestamp(i64::MAX, 0) - Duration(-1, 0) was computed and clamped
C4_Witness ==
  /\ pc = "timestamp_sub_duration"
  /\ self = Ts(I64_MAX, 0) /\ rhs = Dur(-1, 0)
  /\ result.ok /\ result.val.seconds = I64_MAX

(***************************************************************************)
(* Fraction                                                                *)
(***************************************************************************)
Frac(n, d) == [numerator |-> n, denominator |-> d]

RECURSIVE gcd_loop(_, _)
gcd_loop(ua, ub) == IF ub = 0 THEN ua ELSE gcd_loop(ub, ua % ub)

\* Euclid's algorithm on the unsigned magnitudes
gcd(a, b) == gcd_loop(Abs(a), Abs(b))

lcm(a, b) ==
  IF a = 0 \/ b = 0 THEN Err("ZeroDenominator")
  ELSE LET common_divisor == gcd(a, b)
           term1 == TruncDiv(a, common_divisor)
       IN IF FitsI128(term1 * b) THEN Some(term1 * b) ELSE Err("Overflow")

\* the constructor without the division by the common divisor
fraction_new_unreduced(numerator, denominator) ==
  IF denominator = 0 THEN Err("ZeroDenominator")
  ELSE IF denominator = I64_MIN THEN Err("Overflow")
  ELSE IF denominator < 0 /\ numerator = I64_MIN THEN Err("Overflow")
  ELSE IF denominator < 0 THEN Some(Frac(-numerator, -denominator))
  ELSE Some(Frac(numerator, denominator))

fraction_new(numerator, denominator) ==
  IF denominator = 0 THEN Err("ZeroDenominator")
  ELSE IF denominator = I64_MIN THEN Err("Overflow")
  ELSE IF denominator < 0 /\ numerator = I64_MIN THEN Err("Overflow")
  ELSE LET num == IF denominator < 0 THEN -numerator ELSE numerator
           den == IF denominator < 0 THEN -denominator ELSE denominator
           cd == gcd(num, den)
       IN Some(Frac(TruncDiv(num, cd), TruncDiv(den, cd)))

\* i128 checked_div: fails on a zero divisor and on MIN / -1
checked_div_i128(a, b) ==
  IF b = 0 \/ (a = I128_MIN /\ b = -1) THEN Err("Overflow")
  ELSE Some(TruncDiv(a, b))

\* the common body of checked_add (sign = 1) and checked_sub (sign = -1)
fraction_add_sub(a, b, sign) ==
  LET common == lcm(a.denominator, b.denominator)
  IN IF ~common.ok THEN common
     ELSE
       LET factor_self == checked_div_i128(common.val, a.denominator)
           factor_other == checked_div_i128(common.val, b.denominator)
       IN IF ~factor_self.ok THEN factor_self
          ELSE IF ~factor_other.ok THEN factor_other
          ELSE
            LET left == a.numerator * factor_self.val
                right == b.numerator * factor_other.val
                new_numerator == left + sign * right
            IN IF ~FitsI128(left) \/ ~FitsI128(right) \/ ~FitsI128(new_numerator)
                 THEN Err("Overflow")
               ELSE IF ~FitsI64(new_numerator) THEN Err("Overflow")
               ELSE IF ~FitsI64(common.val) THEN Err("Overflow")
               ELSE fraction_new(new_numerator, common.val)

\* the addition that adds the numerators without scaling them
fraction_checked_add_unscaled(a, b) ==
  LET common == lcm(a.denominator, b.denominator)
  IN IF ~common.ok THEN common
     ELSE IF ~FitsI64(a.numerator + b.numerator) \/ ~FitsI64(common.val)
       THEN Err("Overflow")
     ELSE fraction_new(a.numerator + b.numerator, common.val)

fraction_checked_add(a, b) == fraction_add_sub(a, b, 1)

fraction_checked_sub(a, b) == fraction_add_sub(a, b, -1)

fraction_checked_mul(a, b) ==
  LET new_numerator == a.numerator * b.numerator
      new_denominator == a.denominator * b.denominator
  IN IF ~FitsI128(new_numerator) \/ ~FitsI128(new_denominator) THEN Err("Overflow")
     ELSE IF ~FitsI64(new_numerator) THEN Err("Overflow")
     ELSE IF ~FitsI64(new_denominator) THEN Err("Overflow")
     ELSE fraction_new(new_numerator, new_denominator)

\* the division without the test for a zero divisor
fraction_checked_div_nozero(a, b) ==
  LET new_numerator == a.numerator * b.denominator
      new_denominator == a.denominator * b.numerator
  IN IF ~FitsI64(new_numerator) THEN Err("Overflow")
     ELSE IF ~FitsI64(new_denominator) THEN Err("Overflow")
     ELSE fraction_new(new_numerator, new_denominator)

fraction_checked_div(a, b) ==
  IF b.numerator = 0 THEN Err("Undefined")
  ELSE
    LET new_numerator == a.numerator * b.denominator
        new_denominator == a.denominator * b.numerator
    IN IF ~FitsI128(new_numerator) \/ ~FitsI128(new_denominator) THEN Err("Overflow")
       ELSE IF ~FitsI64(new_numerator) THEN Err("Overflow")
       ELSE IF ~FitsI64(new_denominator) THEN Err("Overflow")
       ELSE fraction_new(new_numerator, new_denominator)

(***************************************************************************)
(* Specification of the Fraction operations.  The operands are any two     *)
(* pairs of i64 fields: Fraction's fields are public, so an instance need  *)
(* not come from Fraction::new.                                            *)
(***************************************************************************)
RawFractions == [numerator : I64, denominator : I64]

\* the instances Fraction::new can return
FractionsFromNew ==
  {fraction_new(f.numerator, f.denominator).val :
     f \in {g \in RawFractions : fraction_new(g.numerator, g.denominator).ok}}

\* the comparison without the test of the denominators
fraction_partial_cmp_noguard(a, b) ==
  Some(cmp(a.numerator * b.denominator, b.numerator * a.denominator))

fraction_partial_cmp(a, b) ==
  IF a.denominator <= 0 \/ b.denominator <= 0 THEN None
  ELSE LET self_val == a.numerator * b.denominator
           other_val == b.numerator * a.denominator
       IN Some(cmp(self_val, other_val))

\* unary minus on an i64: an overflow panics with overflow checks and wraps
\* without them
neg_i64(bld, x) ==
  IF FitsI64(-x) THEN Some(-x)
  ELSE IF bld = "debug" THEN Panic
  ELSE Some(WrapI64(-x))

\* the division of both fields by their common divisor
fraction_reduce_divide(numerator, denominator) ==
  LET cd == WrapI64(gcd(numerator, denominator))
  IN IF cd = 0 \/ ~FitsI64(TruncDiv(numerator, cd)) \/ ~FitsI64(TruncDiv(denominator, cd))
     THEN Panic
     ELSE Some(Frac(TruncDiv(numerator, cd), TruncDiv(denominator, cd)))

\* reduce without the protection of i64::MIN
fraction_reduce_unprotected(bld, f) ==
  IF f.denominator = 0 THEN Some(f)
  ELSE IF f.denominator < 0
    THEN IF ~neg_i64(bld, f.numerator).ok \/ ~neg_i64(bld, f.denominator).ok THEN Panic
         ELSE fraction_reduce_divide(neg_i64(bld, f.numerator).val,
                                     neg_i64(bld, f.denominator).val)
  ELSE fraction_reduce_divide(f.numerator, f.denominator)

\* the fraction after reduce(), or a panic
fraction_reduce(bld, f) ==
  IF f.denominator = 0 THEN Some(f)
  ELSE IF f.denominator = I64_MIN THEN Some(f)
  ELSE IF f.denominator < 0 /\ f.numerator = I64_MIN THEN Some(f)
  ELSE IF f.denominator < 0
    THEN IF ~neg_i64(bld, f.numerator).ok \/ ~neg_i64(bld, f.denominator).ok THEN Panic
         ELSE fraction_reduce_divide(neg_i64(bld, f.numerator).val,
                                     neg_i64(bld, f.denominator).val)
  ELSE fraction_reduce_divide(f.numerator, f.denominator)

\* reduced(): reduce() on a copy
fraction_reduced(bld, f) == fraction_reduce(bld, f)

InitFraction ==
  /\ pc = "start"
  /\ build \in Builds   \* unary minus depends on the overflow checks
  /\ self \in RawFractions
  /\ rhs \in RawFractions
  /\ result = NoResult

\* Fraction::new(self.numerator, self.denominator)
FractionNew ==
  /\ pc = "start"
  /\ result' = fraction_new(self.numerator, self.denominator)
  /\ pc' = "fraction_new"
  /\ UNCHANGED <<build, self, rhs>>

FractionCheckedAdd ==
  /\ pc = "start"
  /\ result' = fraction_checked_add(self, rhs)
  /\ pc' = "fraction_checked_add"
  /\ UNCHANGED <<build, self, rhs>>

FractionCheckedSub ==
  /\ pc = "start"
  /\ result' = fraction_checked_sub(self, rhs)
  /\ pc' = "fraction_checked_sub"
  /\ UNCHANGED <<build, self, rhs>>

FractionCheckedMul ==
  /\ pc = "start"
  /\ result' = fraction_checked_mul(self, rhs)
  /\ pc' = "fraction_checked_mul"
  /\ UNCHANGED <<build, self, rhs>>

FractionCheckedDiv ==
  /\ pc = "start"
  /\ result' = fraction_checked_div(self, rhs)
  /\ pc' = "fraction_checked_div"
  /\ UNCHANGED <<build, self, rhs>>

FractionPartialCmp ==
  /\ pc = "start"
  /\ result' = fraction_partial_cmp(self, rhs)
  /\ pc' = "fraction_partial_cmp"
  /\ UNCHANGED <<build, self, rhs>>

FractionReduced ==
  /\ pc = "start"
  /\ result' = fraction_reduced(build, self)
  /\ pc' = "fraction_reduced"
  /\ UNCHANGED <<build, self, rhs>>

NextFraction ==
  \/ FractionNew
  \/ FractionCheckedAdd
  \/ FractionCheckedSub
  \/ FractionCheckedMul
  \/ FractionCheckedDiv
  \/ FractionPartialCmp
  \/ FractionReduced

SpecFraction == InitFraction /\ [][NextFraction]_vars

\* a and b have no common divisor above 1 (b > 0)
InLowestTerms(a, b) ==
  \A k \in 2 .. b : ~(a % k = 0 /\ b % k = 0)

\* r is in lowest terms with a positive denominator and r = num / den
IsReducedValue(r, num, den) ==
  /\ r.denominator > 0
  /\ InLowestTerms(r.numerator, r.denominator)
  /\ r.numerator * den = num * r.denominator

BothFromNew == self \in FractionsFromNew /\ rhs \in FractionsFromNew

\* C5: Fraction::new(n, d) fails exactly when d = 0 (ZeroDenominator),
\* d = i64::MIN (Overflow) or d < 0 and n = i64::MIN (Overflow); otherwise it
\* returns the fraction of the same value in lowest terms with a positive
\* denominator.
C5_FractionNew ==
  pc = "fraction_new" =>
    LET n == self.numerator
        d == self.denominator
    IN /\ (result = Err("ZeroDenominator")) <=> (d = 0)
       /\ (result = Err("Overflow")) <=> (d = I64_MIN \/ (d < 0 /\ n = I64_MIN))
       /\ ~result.ok <=> (d = 0 \/ d = I64_MIN \/ (d < 0 /\ n = I64_MIN))
       /\ result.ok => IsReducedValue(result.val, n, d)
       /\ (n = 0 /\ d = 5) => result = Some(Frac(0, 1))
       /\ (n = -2 /\ d = -4) => result = Some(Frac(1, 2))

\* -2/-4 was constructed and became 1/2
C5_Witness ==
  /\ pc = "fraction_new"
  /\ self = Frac(-2, -4)
  /\ result = Some(Frac(1, 2))

\* C6: for a and b created by Fraction::new, an Ok result of checked_add
\* (checked_sub) is the exact sum (difference) in lowest terms with a positive
\* denominator.
C6_FractionAddSubExact ==
  /\ (pc = "fraction_checked_add" /\ BothFromNew /\ result.ok) =>
       IsReducedValue(result.val,
                      self.numerator * rhs.denominator + rhs.numerator * self.denominator,
                      self.denominator * rhs.denominator)
  /\ (pc = "fraction_checked_sub" /\ BothFromNew /\ result.ok) =>
       IsReducedValue(result.val,
                      self.numerator * rhs.denominator - rhs.numerator * self.denominator,
                      self.denominator * rhs.denominator)
  /\ (pc = "fraction_checked_add" /\ self = Frac(1, 2) /\ rhs = Frac(1, 3)) =>
       result = Some(Frac(5, 6))
  /\ (pc = "fraction_checked_add" /\ self = Frac(1, 2) /\ rhs = Frac(-1, 2)) =>
       result = Some(Frac(0, 1))
  /\ (pc = "fraction_checked_sub" /\ self = Frac(1, 2) /\ rhs = Frac(1, 3)) =>
       result = Some(Frac(1, 6))

\* 1/2 + 1/3 was computed
C6_Witness ==
  /\ pc = "fraction_checked_add"
  /\ self = Frac(1, 2) /\ rhs = Frac(1, 3)
  /\ result = Some(Frac(5, 6))

\* C7: for a and b created by Fraction::new, checked_div returns Undefined
\* exactly when b's numerator is 0; an Ok result of checked_div (checked_mul)
\* is the exact quotient (product) in lowest terms with a positive denominator.
C7_FractionMulDiv ==
  /\ (pc = "fraction_checked_div" /\ BothFromNew) =>
       /\ (result = Err("Undefined")) <=> (rhs.numerator = 0)
       /\ result.ok => IsReducedValue(result.val,
                                      self.numerator * rhs.denominator,
                                      self.denominator * rhs.numerator)
  /\ (pc = "fraction_checked_mul" /\ BothFromNew /\ result.ok) =>
       IsReducedValue(result.val,
                      self.numerator * rhs.numerator,
                      self.denominator * rhs.denominator)
  /\ (pc = "fraction_checked_mul" /\ self = Frac(1, 2) /\ rhs = Frac(2, 3)) =>
       result = Some(Frac(1, 3))
  /\ (pc = "fraction_checked_div" /\ self = Frac(1, 2) /\ rhs = Frac(1, 2)) =>
       result = Some(Frac(1, 1))

\* a fraction was divided by zero and the division returned Undefined
C7_Witness ==
  /\ pc = "fraction_checked_div"
  /\ self = Frac(1, 2) /\ rhs = Frac(0, 1)
  /\ result = Err("Undefined")

(***************************************************************************)
(* Money                                                                   *)
(***************************************************************************)
NANO_FACTOR == NANOS_PER_SEC

Currencies == {"USD", "EUR"}

Mon(c, u, n) == [currency_code |-> c, units |-> u, nanos |-> n]

\* any field values: the fields are public
Monies == [currency_code : Currencies, units : I64, nanos : I32]

\* |nanos| below the base, units and nanos never of opposite sign
MoneyIsNormalized(m) ==
  /\ m.nanos > -NANO_FACTOR /\ m.nanos < NANO_FACTOR
  /\ ~(m.units > 0 /\ m.nanos < 0)
  /\ ~(m.units < 0 /\ m.nanos > 0)

\* steps 2 and 3 of the normalization: the sign alignment, after the carry
money_align(units, nanos) ==
  IF units > 0 /\ nanos < 0
    THEN IF ~FitsI64(units - 1) \/ ~FitsI32(nanos + NANO_FACTOR)
           THEN Err("OutOfRange")
           ELSE Some([units |-> units - 1, nanos |-> nanos + NANO_FACTOR])
  ELSE IF units < 0 /\ nanos > 0
    THEN IF ~FitsI64(units + 1) \/ ~FitsI32(nanos - NANO_FACTOR)
           THEN Err("OutOfRange")
           ELSE Some([units |-> units + 1, nanos |-> nanos - NANO_FACTOR])
  ELSE Some([units |-> units, nanos |-> nanos])

\* nanos.abs() of i32::MIN panics when overflow checks are on and is i32::MIN
\* itself (negative) otherwise
normalize_money_fields_checked(bld, units, nanos) ==
  IF nanos = I32_MIN /\ bld = "debug" THEN Panic
  ELSE
    LET abs_nanos == IF nanos = I32_MIN THEN I32_MIN ELSE Abs(nanos)
        units_carry == TruncDiv(nanos, NANO_FACTOR)
    IN IF abs_nanos >= NANO_FACTOR
         THEN IF FitsI64(units + units_carry)
                THEN money_align(units + units_carry, TruncRem(nanos, NANO_FACTOR))
                ELSE Err("OutOfRange")
         ELSE money_align(units, nanos)

money_normalize(bld, m) ==
  LET fields == normalize_money_fields_checked(bld, m.units, m.nanos)
  IN IF fields.ok
       THEN Some(Mon(m.currency_code, fields.val.units, fields.val.nanos))
       ELSE fields

money_new(bld, currency_code, units, nanos) ==
  LET fields == normalize_money_fields_checked(bld, units, nanos)
  IN IF fields.ok
       THEN Some(Mon(currency_code, fields.val.units, fields.val.nanos))
       ELSE fields

money_try_neg(bld, m) ==
  IF ~FitsI64(-m.units) THEN Err("OutOfRange")
  ELSE IF ~FitsI32(-m.nanos) THEN Err("OutOfRange")
  ELSE money_new(bld, m.currency_code, -m.units, -m.nanos)

(***************************************************************************)
(* Specification of the Money constructors: any currency, any i64 units    *)
(* and any i32 nanos, under either build profile.                          *)
(***************************************************************************)
InitMoneyNew ==
  /\ pc = "start"
  /\ build \in Builds
  /\ self \in Monies
  /\ rhs = Scalar(0)     \* the constructors take no second operand
  /\ result = NoResult

\* Money::new(self.currency_code, self.units, self.nanos)
MoneyNew ==
  /\ pc = "start"
  /\ result' = money_new(build, self.currency_code, self.units, self.nanos)
  /\ pc' = "money_new"
  /\ UNCHANGED <<build, self, rhs>>

MoneyNormalize ==
  /\ pc = "start"
  /\ result' = money_normalize(build, self)
  /\ pc' = "money_normalize"
  /\ UNCHANGED <<build, self, rhs>>

MoneyTryNeg ==
  /\ pc = "start"
  /\ result' = money_try_neg(build, self)
  /\ pc' = "money_try_neg"
  /\ UNCHANGED <<build, self, rhs>>

NextMoneyNew ==
  \/ MoneyNew
  \/ MoneyNormalize
  \/ MoneyTryNeg

SpecMoneyNew == InitMoneyNew /\ [][NextMoneyNew]_vars

money_total_nanos(m) == m.units * NANO_FACTOR + m.nanos

\* what C8 prescribes for the outcome r of normalizing m
NormalizedOutcome(m, r) ==
  /\ r # Panic
  /\ ~r.ok => /\ r = Err("OutOfRange")
              /\ ~FitsI64(TruncDiv(money_total_nanos(m), NANO_FACTOR))
  /\ r.ok => /\ MoneyIsNormalized(r.val)
             /\ money_total_nanos(r.val) = money_total_nanos(m)
             /\ r.val.currency_code = m.currency_code

\* C8: for every (units: i64, nanos: i32), Money::new and Money::normalize
\* never panic or wrap: they return OutOfRange only when the whole units of
\* units * 1e9 + nanos are outside the i64 range, and otherwise a normalized
\* instance of the same total.
C8_MoneyNormalizeTotal ==
  pc \in {"money_new", "money_normalize"} => NormalizedOutcome(self, result)

\* the same, for every nanos except i32::MIN
C8_ExceptI32Min ==
  (pc \in {"money_new", "money_normalize"} /\ self.nanos # I32_MIN) =>
    NormalizedOutcome(self, result)

(***************************************************************************)
(* Money arithmetic                                                        *)
(***************************************************************************)
\* the split with the quotient rounded toward minus infinity
fields_from_total_nanos_floor(total) ==
  IF ~FitsI64(total \div NANO_FACTOR) THEN Err("OutOfRange")
  ELSE Some([units |-> total \div NANO_FACTOR, nanos |-> total % NANO_FACTOR])

fields_from_total_nanos(total) ==
  LET units_val == TruncDiv(total, NANO_FACTOR)
      remainder_val == TruncRem(total, NANO_FACTOR)
  IN IF ~FitsI64(units_val) THEN Err("OutOfRange")
     ELSE IF ~FitsI32(remainder_val) THEN Err("OutOfRange")
     ELSE Some([units |-> units_val, nanos |-> remainder_val])

money_from_total_nanos(currency, total) ==
  LET fields == fields_from_total_nanos(total)
  IN IF fields.ok THEN Some(Mon(currency, fields.val.units, fields.val.nanos))
     ELSE fields

\* the addition that does the arithmetic before it compares the currencies
money_try_add_late_check(a, b) ==
  LET total == money_total_nanos(a) + money_total_nanos(b)
      sum == money_from_total_nanos(a.currency_code, total)
  IN IF ~FitsI128(total) THEN Err("OutOfRange")
     ELSE IF ~sum.ok THEN sum
     ELSE IF a.currency_code # b.currency_code THEN Err("CurrencyMismatch")
     ELSE sum

money_try_add(a, b) ==
  IF a.currency_code # b.currency_code THEN Err("CurrencyMismatch")
  ELSE LET total == money_total_nanos(a) + money_total_nanos(b)
       IN IF ~FitsI128(total) THEN Err("OutOfRange")
          ELSE money_from_total_nanos(a.currency_code, total)

money_try_sub(a, b) ==
  IF a.currency_code # b.currency_code THEN Err("CurrencyMismatch")
  ELSE LET total == money_total_nanos(a) - money_total_nanos(b)
       IN IF ~FitsI128(total) THEN Err("OutOfRange")
          ELSE money_from_total_nanos(a.currency_code, total)

\* try_add_assign / try_sub_assign: the pair (receiver afterwards, returned value)
money_try_add_assign(a, b) ==
  IF a.currency_code # b.currency_code THEN <<a, Err("CurrencyMismatch")>>
  ELSE LET total == money_total_nanos(a) + money_total_nanos(b)
           fields == fields_from_total_nanos(total)
       IN IF ~FitsI128(total) THEN <<a, Err("OutOfRange")>>
          ELSE IF ~fields.ok THEN <<a, fields>>
          ELSE <<[a EXCEPT !.units = fields.val.units, !.nanos = fields.val.nanos],
                 Some("unit")>>

money_try_sub_assign(a, b) ==
  IF a.currency_code # b.currency_code THEN <<a, Err("CurrencyMismatch")>>
  ELSE LET total == money_total_nanos(a) - money_total_nanos(b)
           fields == fields_from_total_nanos(total)
       IN IF ~FitsI128(total) THEN <<a, Err("OutOfRange")>>
          ELSE IF ~fields.ok THEN <<a, fields>>
          ELSE <<[a EXCEPT !.units = fields.val.units, !.nanos = fields.val.nanos],
                 Some("unit")>>

money_try_mul_i64(a, k) ==
  LET total == money_total_nanos(a) * k
  IN IF ~FitsI128(total) THEN Err("OutOfRange")
     ELSE money_from_total_nanos(a.currency_code, total)

money_try_div_i64(a, k) ==
  IF k = 0 THEN Err("OutOfRange")
  ELSE LET total == checked_div_i128(money_total_nanos(a), k)
       IN IF ~total.ok THEN Err("OutOfRange")
          ELSE money_from_total_nanos(a.currency_code, total.val)

(***************************************************************************)
(* Specification of the Money arithmetic: the receiver is any Money, the   *)
(* second operand any Money (of the same or another currency) or any i64   *)
(* scalar.                                                                 *)
(***************************************************************************)
\* the comparison of the fields one after the other
money_partial_cmp_fieldwise(a, b) ==
  IF a.currency_code # b.currency_code THEN None
  ELSE Some(then_with(cmp(a.units, b.units), cmp(a.nanos, b.nanos)))

money_partial_cmp(a, b) ==
  IF a.currency_code # b.currency_code THEN None
  ELSE Some(cmp(money_total_nanos(a), money_total_nanos(b)))

InitMoney ==
  /\ pc = "start"
  /\ build = "release"   \* no operation below depends on the build profile
  /\ self \in Monies
  /\ rhs \in Monies \cup {Scalar(k) : k \in I64}
  /\ result = NoResult

MoneyTryAdd ==
  /\ pc = "start" /\ ~IsScalar(rhs)
  /\ result' = money_try_add(self, rhs)
  /\ pc' = "money_try_add"
  /\ UNCHANGED <<build, self, rhs>>

MoneyTrySub ==
  /\ pc = "start" /\ ~IsScalar(rhs)
  /\ result' = money_try_sub(self, rhs)
  /\ pc' = "money_try_sub"
  /\ UNCHANGED <<build, self, rhs>>

MoneyTryAddAssign ==
  /\ pc = "start" /\ ~IsScalar(rhs)
  /\ self' = money_try_add_assign(self, rhs)[1]
  /\ result' = money_try_add_assign(self, rhs)[2]
  /\ pc' = "money_try_add_assign"
  /\ UNCHANGED <<build, rhs>>

MoneyTrySubAssign ==
  /\ pc = "start" /\ ~IsScalar(rhs)
  /\ self' = money_try_sub_assign(self, rhs)[1]
  /\ result' = money_try_sub_assign(self, rhs)[2]
  /\ pc' = "money_try_sub_assign"
  /\ UNCHANGED <<build, rhs>>

MoneyTryMulI64 ==
  /\ pc = "start" /\ IsScalar(rhs)
  /\ result' = money_try_mul_i64(self, rhs.scalar)
  /\ pc' = "money_try_mul_i64"
  /\ UNCHANGED <<build, self, rhs>>

MoneyTryDivI64 ==
  /\ pc = "start" /\ IsScalar(rhs)
  /\ result' = money_try_div_i64(self, rhs.scalar)
  /\ pc' = "money_try_div_i64"
  /\ UNCHANGED <<build, self, rhs>>

MoneyPartialCmp ==
  /\ pc = "start" /\ ~IsScalar(rhs)
  /\ result' = money_partial_cmp(self, rhs)
  /\ pc' = "money_partial_cmp"
  /\ UNCHANGED <<build, self, rhs>>

NextMoney ==
  \/ MoneyTryAdd
  \/ MoneyTrySub
  \/ MoneyTryAddAssign
  \/ MoneyTrySubAssign
  \/ MoneyTryMulI64
  \/ MoneyTryDivI64
  \/ MoneyPartialCmp

SpecMoney == InitMoney /\ [][NextMoney]_vars

\* r is the normalized instance of currency c whose total nanos is `total`,
\* or OutOfRange exactly when the whole units of `total` do not fit in an i64
IsExactMoney(r, c, total) ==
  /\ ~r.ok <=> ~FitsI64(TruncDiv(total, NANO_FACTOR))
  /\ ~r.ok => r = Err("OutOfRange")
  /\ r.ok => /\ r.val.currency_code = c
             /\ MoneyIsNormalized(r.val)
             /\ money_total_nanos(r.val) = total

\* r is the instance of currency c whose total nanos is `total`; never an error
IsMoneyOfTotal(r, c, total) ==
  /\ r.ok
  /\ r.val.currency_code = c
  /\ MoneyIsNormalized(r.val)
  /\ money_total_nanos(r.val) = total

\* the part of C9 about try_add, try_sub and try_mul_i64
C9_AddSubMul ==
  /\ (pc = "money_try_add" /\ self.currency_code = rhs.currency_code) =>
       IsExactMoney(result, self.currency_code,
                    money_total_nanos(self) + money_total_nanos(rhs))
  /\ (pc = "money_try_sub" /\ self.currency_code = rhs.currency_code) =>
       IsExactMoney(result, self.currency_code,
                    money_total_nanos(self) - money_total_nanos(rhs))
  /\ pc = "money_try_mul_i64" =>
       IsExactMoney(result, self.currency_code,
                    money_total_nanos(self) * rhs.scalar)

\* C9 as stated: try_add, try_sub and try_mul_i64 return the exact normalized
\* result and OutOfRange exactly when its whole units do not fit; try_div_i64
\* returns OutOfRange for k = 0 and otherwise the quotient truncated toward
\* zero.
C9_Original ==
  /\ C9_AddSubMul
  /\ pc = "money_try_div_i64" =>
       IF rhs.scalar = 0 THEN result = Err("OutOfRange")
       ELSE IsMoneyOfTotal(result, self.currency_code,
                           TruncDiv(money_total_nanos(self), rhs.scalar))

\* C9 (amended): as stated, except that for k # 0 try_div_i64 returns the
\* truncated quotient only when the quotient's whole units fit in an i64, and
\* OutOfRange when they do not.
C9_MoneyArithmeticExact ==
  /\ C9_AddSubMul
  /\ pc = "money_try_div_i64" =>
       IF rhs.scalar = 0 THEN result = Err("OutOfRange")
       ELSE /\ IsExactMoney(result, self.currency_code,
                            TruncDiv(money_total_nanos(self), rhs.scalar))
            /\ (self.units = 1 /\ self.nanos = 0 /\ rhs.scalar = 3) =>
                 /\ result.val.units = 0
                 /\ result.val.nanos = NANO_FACTOR \div 3

\* the most negative amount was divided by -1: the quotient does not fit
C9_Witness ==
  /\ pc = "money_try_div_i64"
  /\ self.units = I64_MIN /\ self.nanos = 0 /\ rhs = Scalar(-1)
  /\ result = Err("OutOfRange")

\* C10: try_add, try_sub, try_add_assign and try_sub_assign return
\* CurrencyMismatch exactly when the currency codes differ, whatever the
\* amounts; when an assign operation returns an error the receiver is
\* unchanged, and when it succeeds the receiver holds the value try_add /
\* try_sub returns.
C10_CurrencyGate ==
  [][ /\ pc' \in {"money_try_add", "money_try_sub",
                  "money_try_add_assign", "money_try_sub_assign"} =>
           (result' = Err("CurrencyMismatch")) <=>
             (self.currency_code # rhs.currency_code)
      /\ pc' = "money_try_add_assign" =>
           IF result'.ok THEN Some(self') = money_try_add(self, rhs)
           ELSE self' = self /\ result' = money_try_add(self, rhs)
      /\ pc' = "money_try_sub_assign" =>
           IF result'.ok THEN Some(self') = money_try_sub(self, rhs)
           ELSE self' = self /\ result' = money_try_sub(self, rhs)
    ]_vars

\* amounts of different currencies whose sum would overflow were added in place
C10_Witness ==
  /\ pc = "money_try_add_assign"
  /\ self = Mon("USD", I64_MAX, 0) /\ rhs = Mon("EUR", I64_MAX, 0)
  /\ result = Err("CurrencyMismatch")

(***************************************************************************)
(* Date                                                                    *)
(***************************************************************************)
MkDate(y, m, d) == [year |-> y, month |-> m, day |-> d]

\* the leap rule without the century exception
is_leap_year_julian(year) == TruncRem(year, 4) = 0

is_leap_year(year) ==
  (TruncRem(year, 4) = 0) /\ ((TruncRem(year, 100) # 0) \/ (TruncRem(year, 400) = 0))

days_in_month(month, year) ==
  IF month \in {1, 3, 5, 7, 8, 10, 12} THEN 31
  ELSE IF month \in {4, 6, 9, 11} THEN 30
  ELSE IF month = 2 THEN (IF year = 0 \/ is_leap_year(year) THEN 29 ELSE 28)
  ELSE 0

validate_date(year, month, day) ==
  IF ~(year >= 0 /\ year <= 9999) THEN Err("InvalidYear")
  ELSE IF ~(month >= 0 /\ month <= 12) THEN Err("InvalidMonth")
  ELSE IF ~(day >= 0 /\ day <= 31) THEN Err("InvalidDay")
  ELSE IF year = 0 /\ month = 0 THEN Err("InvalidMonth")
  ELSE IF year = 0 /\ day = 0 THEN Err("InvalidDay")
  ELSE IF year # 0 /\ month = 0
    THEN (IF day # 0 THEN Err("InvalidMonth") ELSE Some("unit"))
  ELSE IF day # 0 /\ day > days_in_month(month, year) THEN Err("InvalidDay")
  ELSE Some("unit")

date_new(year, month, day) ==
  IF validate_date(year, month, day).ok THEN Some(MkDate(year, month, day))
  ELSE validate_date(year, month, day)

date_kind(d) ==
  IF d.year # 0 /\ d.month = 0 /\ d.day = 0 THEN "YearOnly"
  ELSE IF d.year # 0 /\ d.month # 0 /\ d.day = 0 THEN "YearAndMonth"
  ELSE IF d.year = 0 /\ d.month # 0 /\ d.day # 0 THEN "MonthAndDay"
  ELSE "Full"

date_is_valid(d) == validate_date(d.year, d.month, d.day).ok

\* the comparison without the test of the kinds
date_partial_cmp_nokind(a, b) ==
  IF ~(date_is_valid(a) /\ date_is_valid(b)) THEN None
  ELSE Some(then_with(cmp(a.year, b.year),
                      then_with(cmp(a.month, b.month), cmp(a.day, b.day))))

date_partial_cmp(a, b) ==
  IF ~(date_is_valid(a) /\ date_is_valid(b)) THEN None
  ELSE IF date_kind(a) # date_kind(b) THEN None
  ELSE Some(then_with(cmp(a.year, b.year),
                      then_with(cmp(a.month, b.month), cmp(a.day, b.day))))

(***************************************************************************)
(* Specification of the Date operations.  The fields are i32; the years    *)
(* are drawn from the values around which the validation changes, the      *)
(* months and days from the whole range around the valid one.              *)
(***************************************************************************)
SampleYears == {-1, 0, 1, 4, 100, 400, 1900, 2000, 2023, 2024, 9999, 10000}

SampleDates == [year : SampleYears, month : -1 .. 13, day : -1 .. 32]

\* second operands of a comparison: every kind, valid and invalid
OtherDates == [year : {0, 2023, 2024}, month : {0, 1, 2, 12}, day : {0, 1, 28, 29, 31}]

InitDate ==
  /\ pc = "start"
  /\ build = "release"   \* no Date operation depends on the build profile
  /\ self \in SampleDates
  /\ rhs \in OtherDates
  /\ result = NoResult

\* Date::new(self.year, self.month, self.day)
DateNew ==
  /\ pc = "start"
  /\ result' = date_new(self.year, self.month, self.day)
  /\ pc' = "date_new"
  /\ UNCHANGED <<build, self, rhs>>

DatePartialCmp ==
  /\ pc = "start"
  /\ result' = date_partial_cmp(self, rhs)
  /\ pc' = "date_partial_cmp"
  /\ UNCHANGED <<build, self, rhs>>

NextDate == DateNew \/ DatePartialCmp

SpecDate == InitDate /\ [][NextDate]_vars

\* the Gregorian rule: divisible by 4 and not by 100 unless also by 400
GregorianLeap(y) == y % 4 = 0 /\ (y % 100 = 0 => y % 400 = 0)

\* the length of month m (1..12) of year y; year 0 stands for any year
MonthLength(m, y) ==
  IF m = 2 THEN (IF y = 0 \/ GregorianLeap(y) THEN 29 ELSE 28)
  ELSE IF m \in {4, 6, 9, 11} THEN 30 ELSE 31

\* the dates C11 says Date::new accepts
AcceptedDate(y, m, d) ==
  /\ 0 <= y /\ y <= 9999
  /\ 0 <= m /\ m <= 12
  /\ 0 <= d /\ d <= 31
  /\ ~(y = 0 /\ m = 0)
  /\ ~(y = 0 /\ d = 0)
  /\ ~(m = 0 /\ d # 0)
  /\ d # 0 => d <= MonthLength(m, y)

\* C11: Date::new(year, month, day) succeeds exactly for the field ranges and
\* zero-field combinations of the specification, with day <= days-in-month
\* under the Gregorian leap rule and February 29 accepted when year = 0.
C11_DateNewAccepts ==
  pc = "date_new" =>
    /\ result.ok <=> AcceptedDate(self.year, self.month, self.day)
    /\ result.ok => result.val = self
    /\ self \in {MkDate(2024, 2, 29), MkDate(2000, 2, 29), MkDate(0, 2, 29)} => result.ok
    /\ self \in {MkDate(2023, 2, 29), MkDate(1900, 2, 29),
                 MkDate(2023, 4, 31), MkDate(0, 2, 30)} => ~result.ok

\* February 29 of a century year that is not a leap year was rejected
C11_Witness ==
  /\ pc = "date_new"
  /\ self = MkDate(1900, 2, 29)
  /\ result = Err("InvalidDay")

\* which of year, month, day are zero
ZeroFields(d) == <<d.year = 0, d.month = 0, d.day = 0>>

IsAccepted(d) == AcceptedDate(d.year, d.month, d.day)

\* C12: Date partial_cmp is None unless both operands are valid and of the
\* same kind, and then the lexicographic order of (year, month, day), which is
\* Equal only for identical fields.
C12_DatePartialCmp ==
  pc = "date_partial_cmp" =>
    /\ IF IsAccepted(self) /\ IsAccepted(rhs) /\ ZeroFields(self) = ZeroFields(rhs)
         THEN /\ result = Some(IF self.year # rhs.year THEN cmp(self.year, rhs.year)
                               ELSE IF self.month # rhs.month THEN cmp(self.month, rhs.month)
                               ELSE cmp(self.day, rhs.day))
              /\ (result = Some("Equal")) <=> (self = rhs)
         ELSE result = None
    /\ (self = MkDate(2024, 1, 1) /\ rhs = MkDate(2024, 0, 0)) => result = None

\* a full date was compared with a year-only date of the same year
C12_Witness ==
  /\ pc = "date_partial_cmp"
  /\ self = MkDate(2024, 1, 1) /\ rhs = MkDate(2024, 0, 0)
  /\ result = None

(***************************************************************************)
(* DateTime                                                                *)
(***************************************************************************)
\* Option<TimeOffset>: no offset, a UTC offset (a Duration) or a named zone
NoOffset == [kind |-> "none"]
UtcOffset(d) == [kind |-> "utc", offset |-> d]
NamedZone(id) == [kind |-> "tz", id |-> id]

\* PartialOrd of two Durations: the order of their total nanoseconds
duration_partial_cmp(a, b) ==
  Some(cmp(duration_total_nanos(a), duration_total_nanos(b)))

time_offset_partial_cmp(a, b) ==
  IF a.kind = "utc" /\ b.kind = "utc" THEN duration_partial_cmp(a.offset, b.offset)
  ELSE None

\* PartialOrd of Option<T>: None is less than every Some
option_time_offset_partial_cmp(a, b) ==
  IF a.kind = "none" /\ b.kind = "none" THEN Some("Equal")
  ELSE IF a.kind = "none" THEN Some("Less")
  ELSE IF b.kind = "none" THEN Some("Greater")
  ELSE time_offset_partial_cmp(a, b)

datetime_is_valid(year, month, day, hours, minutes, seconds, nanos) ==
  IF ~(year >= 0 /\ year <= 9999) THEN Err("InvalidYear")
  ELSE IF ~(month >= 1 /\ month <= 12) THEN Err("InvalidMonth")
  ELSE IF ~(day >= 1 /\ day <= days_in_month(month, year)) THEN Err("InvalidDay")
  ELSE IF year = 0 /\ (day = 0 \/ month = 0) THEN Err("InvalidDate")
  ELSE IF ~(hours >= 0 /\ hours <= 23) THEN Err("InvalidHours")
  ELSE IF ~(minutes >= 0 /\ minutes <= 59) THEN Err("InvalidMinutes")
  ELSE IF ~(seconds >= 0 /\ seconds <= 59) THEN Err("InvalidSeconds")
  ELSE IF ~(nanos >= 0 /\ nanos <= NANOS_PER_SEC - 1) THEN Err("InvalidNanos")
  ELSE Some("unit")

datetime_validate(t) ==
  datetime_is_valid(t.year, t.month, t.day, t.hours, t.minutes, t.seconds, t.nanos)

\* the lexicographic order of the seven date and time fields
datetime_fields_cmp(a, b) ==
  then_with(cmp(a.year, b.year),
  then_with(cmp(a.month, b.month),
  then_with(cmp(a.day, b.day),
  then_with(cmp(a.hours, b.hours),
  then_with(cmp(a.minutes, b.minutes),
  then_with(cmp(a.seconds, b.seconds), cmp(a.nanos, b.nanos)))))))

\* the comparison without the test of the years
datetime_partial_cmp_nogate(a, b) ==
  IF ~(datetime_validate(a).ok /\ datetime_validate(b).ok) THEN None
  ELSE IF datetime_fields_cmp(a, b) # "Equal" THEN Some(datetime_fields_cmp(a, b))
  ELSE option_time_offset_partial_cmp(a.time_offset, b.time_offset)

datetime_partial_cmp(a, b) ==
  IF ~(datetime_validate(a).ok /\ datetime_validate(b).ok) THEN None
  ELSE IF (a.year = 0 /\ b.year # 0) \/ (a.year # 0 /\ b.year = 0) THEN None
  ELSE IF datetime_fields_cmp(a, b) # "Equal" THEN Some(datetime_fields_cmp(a, b))
  ELSE option_time_offset_partial_cmp(a.time_offset, b.time_offset)

(***************************************************************************)
(* Specification of the DateTime comparison.  The receiver ranges over     *)
(* valid and invalid values of every field and every shape of offset; the  *)
(* second operand over a smaller set that ties or differs in every field.  *)
(***************************************************************************)
SelfOffsets ==
  {NoOffset, UtcOffset(Dur(0, 0)), UtcOffset(Dur(-1, 0)), UtcOffset(Dur(1, 0)),
   NamedZone("Europe/Rome"), NamedZone("America/New_York")}

OtherOffsets ==
  {NoOffset, UtcOffset(Dur(0, 0)), UtcOffset(Dur(1, 0)), NamedZone("Europe/Rome")}

SelfDateTimes ==
  [year : {0, 2023, 2024}, month : {1, 2, 13}, day : {0, 1, 29},
   hours : {0, 1, 24}, minutes : {0, 1}, seconds : {0, 1}, nanos : {-1, 0, 1},
   time_offset : SelfOffsets]

OtherDateTimes ==
  [year : {0, 2024}, month : {1, 2}, day : {1},
   hours : {0, 1}, minutes : {0}, seconds : {0, 1}, nanos : {0, 1, NANOS_PER_SEC},
   time_offset : OtherOffsets]

InitDateTime ==
  /\ pc = "start"
  /\ build = "release"   \* the comparison does not depend on the build profile
  /\ self \in SelfDateTimes
  /\ rhs \in OtherDateTimes
  /\ result = NoResult

DateTimePartialCmp ==
  /\ pc = "start"
  /\ result' = datetime_partial_cmp(self, rhs)
  /\ pc' = "datetime_partial_cmp"
  /\ UNCHANGED <<build, self, rhs>>

NextDateTime == DateTimePartialCmp

SpecDateTime == InitDateTime /\ [][NextDateTime]_vars

\* the DateTimes that pass validation
AcceptedDateTime(t) ==
  /\ 0 <= t.year /\ t.year <= 9999
  /\ 1 <= t.month /\ t.month <= 12
  /\ 1 <= t.day /\ t.day <= MonthLength(t.month, t.year)
  /\ 0 <= t.hours /\ t.hours <= 23
  /\ 0 <= t.minutes /\ t.minutes <= 59
  /\ 0 <= t.seconds /\ t.seconds <= 59
  /\ 0 <= t.nanos /\ t.nanos < NANOS_PER_SEC

SevenFields(t) == <<t.year, t.month, t.day, t.hours, t.minutes, t.seconds, t.nanos>>

RECURSIVE LexCmp(_, _)
\* the lexicographic order of two tuples of the same length
LexCmp(x, y) ==
  IF x = <<>> THEN "Equal"
  ELSE IF Head(x) # Head(y) THEN cmp(Head(x), Head(y))
  ELSE LexCmp(Tail(x), Tail(y))

\* C13: DateTime partial_cmp is None when an operand is invalid or exactly one
\* has year 0; otherwise it is the lexicographic order of the seven fields
\* when that is not Equal, and the offsets decide only when all seven tie.
C13_DateTimePartialCmp ==
  pc = "datetime_partial_cmp" =>
    IF ~AcceptedDateTime(self) \/ ~AcceptedDateTime(rhs) THEN result = None
    ELSE IF (self.year = 0) # (rhs.year = 0) THEN result = None
    ELSE IF SevenFields(self) # SevenFields(rhs)
      THEN result = Some(LexCmp(SevenFields(self), SevenFields(rhs)))
    ELSE result = option_time_offset_partial_cmp(self.time_offset, rhs.time_offset)

\* a dated moment was compared with a valid moment without a year
C13_Witness ==
  /\ pc = "datetime_partial_cmp"
  /\ AcceptedDateTime(self) /\ AcceptedDateTime(rhs)
  /\ self.year = 2024 /\ rhs.year = 0
  /\ result = None

\* C14: for two valid DateTimes that tie on all date and time fields, if at
\* least one carries a named time zone then partial_cmp is None, whatever the
\* other's offset is (a named zone, a UTC offset, or no offset at all).
C14_NamedZoneNeverOrdered ==
  (/\ pc = "datetime_partial_cmp"
   /\ AcceptedDateTime(self) /\ AcceptedDateTime(rhs)
   /\ SevenFields(self) = SevenFields(rhs)
   /\ (self.time_offset.kind = "tz" \/ rhs.time_offset.kind = "tz")) =>
     result = None

(***************************************************************************)
(* Comparison of Money                                                     *)
(***************************************************************************)
\* C15: Money partial_cmp is None exactly when the currency codes differ;
\* when they are equal it is the order of units * base + nanos, computed in a
\* wider integer that never overflows, so instances that are not normalized
\* compare by value (units 0 with one and a half base of nanos is Equal to
\* units 1 with half a base of nanos).
C15_MoneyPartialCmp ==
  pc = "money_partial_cmp" =>
    LET a == self.units * NANO_FACTOR + self.nanos
        b == rhs.units * NANO_FACTOR + rhs.nanos
    IN /\ FitsI128(a) /\ FitsI128(b)
       /\ result = None <=> self.currency_code # rhs.currency_code
       /\ result.ok => /\ result.val = "Less" <=> a < b
                       /\ result.val = "Equal" <=> a = b
                       /\ result.val = "Greater" <=> a > b
       /\ (/\ self = Mon("USD", 0, NANO_FACTOR + NANO_FACTOR \div 2)
           /\ rhs = Mon("USD", 1, NANO_FACTOR \div 2)) => result = Some("Equal")

\* an instance that is not normalized was found equal to its normalized form
C15_Witness ==
  /\ pc = "money_partial_cmp"
  /\ self = Mon("USD", 0, NANO_FACTOR + NANO_FACTOR \div 2)
  /\ rhs = Mon("USD", 1, NANO_FACTOR \div 2)
  /\ result = Some("Equal")

(***************************************************************************)
(* Comparison and reduction of Fractions                                   *)
(***************************************************************************)
\* the order of the rationals n1/d1 and n2/d2 with positive denominators:
\* the sign of their difference (n1*d2 - n2*d1) / (d1*d2)
RationalOrder(n1, d1, n2, d2) ==
  LET diff == n1 * d2 - n2 * d1
  IN IF diff < 0 THEN "Less" ELSE IF diff = 0 THEN "Equal" ELSE "Greater"

\* C16: Fraction partial_cmp is not comparable exactly when either operand
\* has a denominator <= 0; otherwise it is the order of the two rational
\* values by cross-multiplication in a wider integer, which cannot overflow
\* and needs no reduction: 2/4 against 1/2 is Equal, 1/2 > 1/3, -1/2 < 1/2.
C16_FractionPartialCmp ==
  pc = "fraction_partial_cmp" =>
    /\ result = None <=> (self.denominator <= 0 \/ rhs.denominator <= 0)
    /\ FitsI128(self.numerator * rhs.denominator)
    /\ FitsI128(rhs.numerator * self.denominator)
    /\ result.ok => result.val = RationalOrder(self.numerator, self.denominator,
                                               rhs.numerator, rhs.denominator)
    /\ (self = Frac(2, 4) /\ rhs = Frac(1, 2)) => result = Some("Equal")
    /\ (self = Frac(1, 2) /\ rhs = Frac(1, 3)) => result = Some("Greater")
    /\ (self = Frac(-1, 2) /\ rhs = Frac(1, 2)) => result = Some("Less")

\* an unreduced fraction was found equal to its reduced form
C16_Witness ==
  /\ pc = "fraction_partial_cmp"
  /\ self = Frac(2, 4) /\ rhs = Frac(1, 2)
  /\ result = Some("Equal")

\* the fields reduce() leaves alone
ReduceLeavesAlone(f) ==
  \/ f.denominator = 0
  \/ f.denominator = I64_MIN
  \/ f.denominator < 0 /\ f.numerator = I64_MIN

\* C19: reduce never panics or overflows; with a denominator of 0 or
\* i64::MIN, or a negative denominator and a numerator of i64::MIN, the
\* instance is unchanged; otherwise the denominator becomes positive, the
\* fields have no common divisor, the rational value is unchanged (2/-4
\* becomes -1/2); reducing a reduced fraction changes nothing.
C19_FractionReduce ==
  pc = "fraction_reduced" =>
    /\ result.ok
    /\ ReduceLeavesAlone(self) => result.val = self
    /\ ~ReduceLeavesAlone(self) =>
         /\ result.val.denominator > 0
         /\ InLowestTerms(result.val.numerator, result.val.denominator)
         /\ result.val.numerator * self.denominator
              = self.numerator * result.val.denominator
         /\ fraction_reduce(build, result.val) = result
    /\ self = Frac(2, -4) => result.val = Frac(-1, 2)

\* a fraction with a negative denominator was reduced
C19_Witness ==
  /\ pc = "fraction_reduced"
  /\ self = Frac(2, -4)
  /\ result = Some(Frac(-1, 2))

(***************************************************************************)
(* Duration: the total of nanoseconds and back                             *)
(***************************************************************************)
\* C17: for every normalized Duration d, from_total_nanos(d.total_nanos())
\* is exactly d; and for every total whose whole seconds fit in an i64,
\* from_total_nanos returns a normalized Duration whose total_nanos is that
\* total.
C17_FromTotalNanosRoundTrip ==
  /\ pc = "duration_round_trip" =>
       (DurationIsNormalized(self) => result = Some(self))
  /\ pc = "from_total_nanos" =>
       (FitsI64(TruncDiv(rhs.scalar, NANOS_PER_SEC)) =>
          /\ result.ok
          /\ DurationIsNormalized(result.val)
          /\ result.val.seconds * NANOS_PER_SEC + result.val.nanos = rhs.scalar)

\* a negative Duration with a fractional part went through its total and back
C17_Witness ==
  /\ pc = "duration_round_trip"
  /\ self = Dur(-1, -1)
  /\ rhs = Scalar(-(NANOS_PER_SEC + 1))
  /\ result = Some(self)

(***************************************************************************)
(* Specification of checked_add and checked_sub on Durations built by      *)
(* direct field construction: any i64 seconds with any i32 nanos.          *)
(***************************************************************************)
RawDurations == [seconds : I64, nanos : I32]

InitDurationRaw ==
  /\ pc = "start"
  /\ build = "release"   \* neither operation depends on the build profile
  /\ self \in RawDurations
  /\ rhs \in RawDurations
  /\ result = NoResult

DurationRawCheckedAdd ==
  /\ pc = "start"
  /\ result' = duration_checked_add(self, rhs)
  /\ pc' = "duration_checked_add"
  /\ UNCHANGED <<build, self, rhs>>

DurationRawCheckedSub ==
  /\ pc = "start"
  /\ result' = duration_checked_sub(self, rhs)
  /\ pc' = "duration_checked_sub"
  /\ UNCHANGED <<build, self, rhs>>

NextDurationRaw ==
  \/ DurationRawCheckedAdd
  \/ DurationRawCheckedSub

SpecDurationRaw == InitDurationRaw /\ [][NextDurationRaw]_vars

\* C18: on Durations with any 32-bit nanos, checked_add and checked_sub
\* either fail or return a Duration whose total_nanos is the exact sum or
\* difference of the operands' total_nanos.
C18_NoSilentWraparound ==
  /\ (pc = "duration_checked_add" /\ result.ok) =>
       duration_total_nanos(result.val)
         = duration_total_nanos(self) + duration_total_nanos(rhs)
  /\ (pc = "duration_checked_sub" /\ result.ok) =>
       duration_total_nanos(result.val)
         = duration_total_nanos(self) - duration_total_nanos(rhs)

(***************************************************************************)
(* Negation of Money                                                       *)
(***************************************************************************)
\* C20: for every Money m (any units and nanos), try_neg(m) returns the
\* normalized instance of the same currency whose total nanos is
\* -(m.units * base + m.nanos) whenever that value's whole units fit in an
\* i64, and returns OutOfRange only when they do not.
C20_TryNegExact ==
  pc = "money_try_neg" =>
    IsExactMoney(result, self.currency_code, -(self.units * NANO_FACTOR + self.nanos))

(***************************************************************************)
(* Text output.  A String is the sequence of its characters; a symbol or a  *)
(* unit name passed in as a whole is one element.                           *)
(***************************************************************************)
DigitChars == <<"0", "1", "2", "3", "4", "5", "6", "7", "8", "9">>

RECURSIVE to_string(_)
\* i128::to_string / u64::to_string of a non-negative integer
to_string(n) ==
  IF n < 10 THEN <<DigitChars[n + 1]>>
  ELSE Append(to_string(n \div 10), DigitChars[(n % 10) + 1])

RECURSIVE zeros(_)
zeros(k) == IF k <= 0 THEN <<>> ELSE <<"0">> \o zeros(k - 1)

\* format!("{:0width$}", n)
zero_padded(n, width) == zeros(width - Len(to_string(n))) \o to_string(n)

RECURSIVE pow10(_)
\* 10_i128.pow(k)
pow10(k) == IF k = 0 THEN 1 ELSE 10 * pow10(k - 1)

(***************************************************************************)
(* Money::to_formatted_string.  The function never multiplies the units,   *)
(* so it is modelled with the real decimal base 10^9 and real i32 nanos.   *)
(***************************************************************************)
TEN_POW_9 == pow10(9)

money_to_formatted_string(m, symbol, places) ==
  LET decimal_places == IF places < 9 THEN places ELSE 9
      fold == m.nanos >= TEN_POW_9 \/ m.nanos <= -TEN_POW_9
      units0 == IF fold THEN m.units + TruncDiv(m.nanos, TEN_POW_9) ELSE m.units
      nanos0 == IF fold THEN TruncRem(m.nanos, TEN_POW_9) ELSE m.nanos
      current_units == IF units0 > 0 /\ nanos0 < 0 THEN units0 - 1
                       ELSE IF units0 < 0 /\ nanos0 > 0 THEN units0 + 1
                       ELSE units0
      current_nanos == IF units0 > 0 /\ nanos0 < 0 THEN nanos0 + TEN_POW_9
                       ELSE IF units0 < 0 /\ nanos0 > 0 THEN nanos0 - TEN_POW_9
                       ELSE nanos0
      power_of_10_for_display == pow10(decimal_places)
      rounding_power == pow10(9 - decimal_places)
      abs_nanos == Abs(current_nanos)
      remainder_for_rounding == abs_nanos % rounding_power
      rounded0 == abs_nanos \div rounding_power
      rounded1 == IF rounding_power > 1
                     /\ remainder_for_rounding >= rounding_power \div 2
                  THEN rounded0 + 1 ELSE rounded0
      units_carry == IF decimal_places > 0 /\ rounded1 >= power_of_10_for_display
                     THEN 1 ELSE 0
      rounded_nanos == IF decimal_places > 0 /\ units_carry = 0 THEN rounded1 ELSE 0
      is_negative == current_units < 0 \/ (current_units = 0 /\ current_nanos < 0)
      final_units_abs == Abs(current_units) + units_carry
  IN (IF is_negative THEN <<"-">> ELSE <<>>)
       \o <<symbol>>
       \o to_string(final_units_abs)
       \o (IF decimal_places > 0
             THEN <<".">> \o zero_padded(rounded_nanos, decimal_places)
             ELSE <<>>)

\* values of nanos around every rounding boundary, of both signs, within and
\* beyond the base
SampleNanoMagnitudes ==
  {0, 1, 4, 5, 9, 49, 50, 4000000, 4999999, 5000000, 49999999, 50000000,
   123456789, 499999999, 500000000, 555000000, 900000000, 949999999,
   950000000, 994999999, 995000000, 999999994, 999999995, 999999999,
   1000000000, 1500000000, 2147483647}

SampleNanos == SampleNanoMagnitudes \cup {-n : n \in SampleNanoMagnitudes}

FormatMonies == [currency_code : {"USD"}, units : {-5, -1, 0, 1, 9, 10}, nanos : SampleNanos]

\* decimal_places: u32
SamplePlaces == {0, 1, 2, 3, 7, 8, 9, 10, 12}

InitMoneyFormat ==
  /\ pc = "start"
  /\ build = "release"   \* the arithmetic is on i128 and cannot overflow
  /\ self \in FormatMonies
  /\ rhs \in {Scalar(k) : k \in SamplePlaces}
  /\ result = NoResult

MoneyToFormattedString ==
  /\ pc = "start"
  /\ result' = Some(money_to_formatted_string(self, "$", rhs.scalar))
  /\ pc' = "money_to_formatted_string"
  /\ UNCHANGED <<build, self, rhs>>

NextMoneyFormat == MoneyToFormattedString

SpecMoneyFormat == InitMoneyFormat /\ [][NextMoneyFormat]_vars

\* |nanos| below 10^9, units and nanos never of opposite sign
DecimalNormalized(m) ==
  /\ m.nanos > -TEN_POW_9 /\ m.nanos < TEN_POW_9
  /\ ~(m.units > 0 /\ m.nanos < 0)
  /\ ~(m.units < 0 /\ m.nanos > 0)

\* the magnitude of m rounded half-up at p places, written as C21 says
RoundedHalfUpText(m, symbol, p) ==
  LET scale == pow10(9 - p)
      frac == IF p = 9 THEN Abs(m.nanos)
              ELSE (Abs(m.nanos) + scale \div 2) \div scale
      carry == IF frac >= pow10(p) THEN 1 ELSE 0
      negative == m.units < 0 \/ (m.units = 0 /\ m.nanos < 0)
  IN (IF negative THEN <<"-">> ELSE <<>>)
       \o <<symbol>>
       \o to_string(Abs(m.units) + carry)
       \o (IF p > 0
             THEN <<".">> \o zero_padded(IF carry = 1 THEN 0 ELSE frac, p)
             ELSE <<>>)

ClampedPlaces == IF rhs.scalar > 9 THEN 9 ELSE rhs.scalar

\* C21: to_formatted_string clamps p to [0, 9] and, for every clamped p,
\* prints the magnitude rounded half-up at p decimal places: the whole part,
\* then (when p > 0) a point and exactly p zero-padded digits, a rounding that
\* reaches 10^p carrying into the whole part; at p = 9 the nano digits are
\* exact; one '-' before the symbol exactly when the amount is negative.
C21_FormattedRoundsHalfUp ==
  (pc = "money_to_formatted_string" /\ DecimalNormalized(self)) =>
    result = Some(RoundedHalfUpText(self, "$", ClampedPlaces))

\* the same for the precisions that print decimals
C21_HoldsWithDecimals ==
  (pc = "money_to_formatted_string" /\ DecimalNormalized(self) /\ ClampedPlaces > 0) =>
    result = Some(RoundedHalfUpText(self, "$", ClampedPlaces))

(***************************************************************************)
(* Canonical Display of Duration.  The seconds keep the scaled i64 width,  *)
(* whose extremes matter; the nanos are printed as nine decimal digits and *)
(* keep the real base 10^9.                                                *)
(***************************************************************************)
\* i64::abs: an overflow panics with overflow checks and wraps without them
abs_i64(bld, x) ==
  IF FitsI64(Abs(x)) THEN Some(Abs(x))
  ELSE IF bld = "debug" THEN Panic
  ELSE Some(WrapI64(Abs(x)))

\* "{}" of a signed integer
display_int(x) == IF x < 0 THEN <<"-">> \o to_string(-x) ELSE to_string(x)

RECURSIVE strip_trailing_zeros(_, _)
\* the loop that divides by ten while the last digit is zero (abs_nanos > 0)
strip_trailing_zeros(abs_nanos, width) ==
  IF abs_nanos % 10 = 0 THEN strip_trailing_zeros(abs_nanos \div 10, width - 1)
  ELSE [abs_nanos |-> abs_nanos, width |-> width]

duration_display(bld, d) ==
  LET normalized == duration_normalized_base(TEN_POW_9, d)
      is_negative == normalized.seconds < 0 \/ normalized.nanos < 0
      abs_seconds == abs_i64(bld, normalized.seconds)
      abs_nanos == Abs(normalized.nanos)
      stripped == strip_trailing_zeros(abs_nanos, 9)
  IN IF ~abs_seconds.ok THEN Panic
     ELSE Some((IF is_negative THEN <<"-">> ELSE <<>>)
                 \o display_int(abs_seconds.val)
                 \o (IF abs_nanos > 0
                       THEN <<".">> \o zero_padded(stripped.abs_nanos, stripped.width)
                       ELSE <<>>)
                 \o <<"s">>)

DisplayDurations == [seconds : I64, nanos : SampleNanos \cup {1000, -1000}]

InitDurationDisplay ==
  /\ pc = "start"
  /\ build \in Builds    \* i64::abs depends on the overflow checks
  /\ self \in DisplayDurations
  /\ rhs = Scalar(0)     \* Display takes no second operand
  /\ result = NoResult

DurationDisplay ==
  /\ pc = "start"
  /\ result' = duration_display(build, self)
  /\ pc' = "duration_display"
  /\ UNCHANGED <<build, self, rhs>>

NextDurationDisplay == DurationDisplay

SpecDurationDisplay == InitDurationDisplay /\ [][NextDurationDisplay]_vars

\* |nanos| below 10^9, seconds and nanos never of opposite sign
DecimalDurationNormalized(d) ==
  /\ d.nanos > -TEN_POW_9 /\ d.nanos < TEN_POW_9
  /\ ~(d.seconds > 0 /\ d.nanos < 0)
  /\ ~(d.seconds < 0 /\ d.nanos > 0)

RECURSIVE WithoutTrailingZeros(_)
WithoutTrailingZeros(digits) ==
  IF digits # <<>> /\ digits[Len(digits)] = "0"
    THEN WithoutTrailingZeros(SubSeq(digits, 1, Len(digits) - 1))
    ELSE digits

\* the canonical text C24 describes
CanonicalText(d) ==
  (IF d.seconds < 0 \/ (d.seconds = 0 /\ d.nanos < 0) THEN <<"-">> ELSE <<>>)
    \o to_string(Abs(d.seconds))
    \o (IF d.nanos # 0
          THEN <<".">> \o WithoutTrailingZeros(zero_padded(Abs(d.nanos), 9))
          ELSE <<>>)
    \o <<"s">>

\* C24: the Display of every normalized Duration, the extreme seconds
\* included, is one '-' exactly when it is negative, the decimal magnitude of
\* the seconds, then, only when nanos # 0, '.' and |nanos| as nine digits
\* without the trailing zeros, then 's'.
C24_CanonicalDisplay ==
  (pc = "duration_display" /\ DecimalDurationNormalized(self)) =>
    result = Some(CanonicalText(self))

\* the same for every seconds value except i64::MIN, with the examples
C24_ExceptI64Min ==
  (pc = "duration_display" /\ DecimalDurationNormalized(self) /\ self.seconds # I64_MIN) =>
    /\ result = Some(CanonicalText(self))
    /\ self = Dur(0, 1000) =>
         result.val = <<"0", ".", "0", "0", "0", "0", "0", "1", "s">>
    /\ self = Dur(0, -500000000) => result.val = <<"-", "0", ".", "5", "s">>

(***************************************************************************)
(* Human-readable text of a Duration.  The seconds are real values here:   *)
(* the decomposition divides by 60, 3600 and 86400.  The operands are      *)
(* normalized Durations, which normalization leaves unchanged.             *)
(***************************************************************************)
SECONDS_PER_MINUTE == 60
SECONDS_PER_HOUR == 60 * SECONDS_PER_MINUTE
SECONDS_PER_DAY == 24 * SECONDS_PER_HOUR
\* the approximate length of a month
SECONDS_PER_MONTH == 30 * SECONDS_PER_DAY

\* Duration::is_negative
duration_is_negative(d) == d.seconds < 0 \/ (d.seconds = 0 /\ d.nanos < 0)

\* Duration::get_data: the greedy decomposition of the absolute whole seconds,
\* largest unit first
duration_get_data(d) ==
  LET total == Abs(d.seconds)
      after_months == total % SECONDS_PER_MONTH
      after_days == after_months % SECONDS_PER_DAY
      after_hours == after_days % SECONDS_PER_HOUR
  IN [months |-> total \div SECONDS_PER_MONTH,
      days |-> after_months \div SECONDS_PER_DAY,
      hours |-> after_days \div SECONDS_PER_HOUR,
      minutes |-> after_hours \div SECONDS_PER_MINUTE,
      seconds |-> after_hours % SECONDS_PER_MINUTE,
      is_negative |-> duration_is_negative(d)]

\* Display of a unit: "{value} {name}" and an "s" unless the value is 1
unit_display(value, name) ==
  to_string(value) \o <<" ", name>> \o (IF value # 1 THEN <<"s">> ELSE <<>>)

\* format_if_nonzero, as the list of the parts it pushes
format_if_nonzero(value, name) ==
  IF value = 0 THEN <<>> ELSE <<unit_display(value, name)>>

RECURSIVE join(_, _)
\* [String]::join
join(parts, sep) ==
  IF parts = <<>> THEN <<>>
  ELSE IF Len(parts) = 1 THEN parts[1]
  ELSE parts[1] \o sep \o join(Tail(parts), sep)

\* the text with every part joined by " and "
to_human_readable_string_all_and(d) ==
  LET data == duration_get_data(d)
      parts == format_if_nonzero(data.months, "month")
                 \o format_if_nonzero(data.days, "day")
                 \o format_if_nonzero(data.hours, "hour")
                 \o format_if_nonzero(data.minutes, "minute")
                 \o format_if_nonzero(data.seconds, "second")
      sign == IF data.is_negative THEN <<"-", " ">> ELSE <<>>
  IN IF parts = <<>> THEN <<"0", " ", "second", "s">>
     ELSE IF Len(parts) = 1 THEN parts[1]
     ELSE sign \o join(parts, <<" ", "and", " ">>)

to_human_readable_string(d) ==
  LET data == duration_get_data(d)
      parts == format_if_nonzero(data.months, "month")
                 \o format_if_nonzero(data.days, "day")
                 \o format_if_nonzero(data.hours, "hour")
                 \o format_if_nonzero(data.minutes, "minute")
                 \o format_if_nonzero(data.seconds, "second")
      sign == IF data.is_negative THEN <<"-", " ">> ELSE <<>>
  IN IF parts = <<>> THEN <<"0", " ", "second", "s">>
     ELSE IF Len(parts) = 1 THEN parts[1]
     ELSE IF Len(parts) = 2
       THEN sign \o parts[1] \o <<" ", "and", " ">> \o parts[2]
     ELSE sign \o join(SubSeq(parts, 1, Len(parts) - 1), <<" ">>)
            \o <<" ", "and", " ">> \o parts[Len(parts)]

SampleSecondMagnitudes ==
  {0, 1, 2, 10, 59, 60, 61, 65, 90, 119, 120, 3599, 3600, 3601, 3605, 3660,
   3661, 7200, 7261, 86399, 86400, 86401, 86460, 90000, 90061, 172800,
   176461, 2591999, 2592000, 2592001, 2592060, 2595600, 2678400, 2682061,
   5184000, 5274061, 31536000}

SampleSeconds == SampleSecondMagnitudes \cup {-k : k \in SampleSecondMagnitudes}

HumanDurations ==
  {d \in [seconds : SampleSeconds, nanos : {-500000000, -1, 0, 1, 500000000}] :
     /\ ~(d.seconds > 0 /\ d.nanos < 0)
     /\ ~(d.seconds < 0 /\ d.nanos > 0)}

InitDurationHuman ==
  /\ pc = "start"
  /\ build = "release"   \* the decomposition does not depend on the build profile
  /\ self \in HumanDurations
  /\ rhs = Scalar(0)     \* the function takes no second operand
  /\ result = NoResult

DurationToHumanReadableString ==
  /\ pc = "start"
  /\ result' = Some(to_human_readable_string(self))
  /\ pc' = "to_human_readable_string"
  /\ UNCHANGED <<build, self, rhs>>

NextDurationHuman == DurationToHumanReadableString

SpecDurationHuman == InitDurationHuman /\ [][NextDurationHuman]_vars

\* "<value> <unit>", the unit in the plural unless the value is 1
ComponentText(value, unit) ==
  to_string(value) \o <<" ">> \o (IF value = 1 THEN <<unit>> ELSE <<unit, "s">>)

\* the texts of the non-zero components, months first
NonZeroComponents(c) ==
  LET all == <<ComponentText(c.months, "month"), ComponentText(c.days, "day"),
               ComponentText(c.hours, "hour"), ComponentText(c.minutes, "minute"),
               ComponentText(c.seconds, "second")>>
      values == <<c.months, c.days, c.hours, c.minutes, c.seconds>>
  IN SelectSeq(all, LAMBDA t : \E i \in 1 .. 5 : all[i] = t /\ values[i] # 0)

RECURSIVE SpaceJoined(_)
SpaceJoined(texts) ==
  IF Len(texts) = 1 THEN texts[1]
  ELSE texts[1] \o <<" ">> \o SpaceJoined(Tail(texts))

\* one text alone, two joined by " and ", more joined by spaces with " and "
\* before the last
JoinedText(texts) ==
  IF texts = <<>> THEN <<"0", " ", "second", "s">>
  ELSE IF Len(texts) = 1 THEN texts[1]
  ELSE SpaceJoined(SubSeq(texts, 1, Len(texts) - 1))
         \o <<" ", "and", " ">> \o texts[Len(texts)]

C23_NegativePrefix ==
  (/\ pc = "to_human_readable_string"
   /\ duration_is_negative(self)
   /\ NonZeroComponents(duration_get_data(self)) # <<>>) =>
     result = Some(<<"-", " ">>
                     \o to_human_readable_string(Dur(-self.seconds, -self.nanos)))

\* the same for two or more non-zero components
C23_TwoOrMoreParts ==
  (/\ pc = "to_human_readable_string"
   /\ duration_is_negative(self)
   /\ Len(NonZeroComponents(duration_get_data(self))) >= 2) =>
     result = Some(<<"-", " ">>
                     \o to_human_readable_string(Dur(-self.seconds, -self.nanos)))

(***************************************************************************)
(* Timestamp +/- core::time::Duration                                      *)
(***************************************************************************)
U64_MAX == 2 * I64_MAX + 1

\* a standard-library Duration: unsigned seconds and nanos below the base
StdDurations == [secs : 0 .. U64_MAX, subsec_nanos : 0 .. (NANOS_PER_SEC - 1)]

\* u64::cast_signed: the same bits read as an i64
cast_signed(x) == WrapI64(x)

\* i32::saturating_add / saturating_sub
saturating_add_i32(a, b) ==
  IF a + b > I32_MAX THEN I32_MAX ELSE IF a + b < I32_MIN THEN I32_MIN ELSE a + b

saturating_sub_i32(a, b) ==
  IF a - b > I32_MAX THEN I32_MAX ELSE IF a - b < I32_MIN THEN I32_MIN ELSE a - b

timestamp_add_std(t, d) ==
  timestamp_normalize(Ts(saturating_add(t.seconds, cast_signed(d.secs)),
                         saturating_add_i32(t.nanos, d.subsec_nanos)))

timestamp_sub_std(t, d) ==
  timestamp_normalize(Ts(saturating_sub(t.seconds, cast_signed(d.secs)),
                         saturating_sub_i32(t.nanos, d.subsec_nanos)))

InitTimestampStd ==
  /\ pc = "start"
  /\ build = "release"   \* every step saturates: no dependence on the build profile
  /\ self \in NormalizedTimestamps
  /\ rhs \in StdDurations
  /\ result = NoResult

TimestampAddStd ==
  /\ pc = "start"
  /\ result' = Some(timestamp_add_std(self, rhs))
  /\ pc' = "timestamp_add_std"
  /\ UNCHANGED <<build, self, rhs>>

TimestampSubStd ==
  /\ pc = "start"
  /\ result' = Some(timestamp_sub_std(self, rhs))
  /\ pc' = "timestamp_sub_std"
  /\ UNCHANGED <<build, self, rhs>>

NextTimestampStd == TimestampAddStd \/ TimestampSubStd

SpecTimestampStd == InitTimestampStd /\ [][NextTimestampStd]_vars

\* the whole seconds of the exact instant t + d and t - d
ExactSecondsAfterAdd ==
  (timestamp_total(self) + rhs.secs * NANOS_PER_SEC + rhs.subsec_nanos) \div NANOS_PER_SEC

ExactSecondsAfterSub ==
  (timestamp_total(self) - rhs.secs * NANOS_PER_SEC - rhs.subsec_nanos) \div NANOS_PER_SEC

\* C25: for every normalized Timestamp t and standard Duration s with seconds
\* up to 2^64 - 1, t + s is never earlier than t and t - s never later; when
\* the exact seconds leave the i64 range the result's seconds are i64::MAX
\* for the addition and i64::MIN for the subtraction.
C25_StdNeverBackwards ==
  /\ pc = "timestamp_add_std" =>
       /\ timestamp_total(result.val) >= timestamp_total(self)
       /\ ExactSecondsAfterAdd > I64_MAX => result.val.seconds = I64_MAX
  /\ pc = "timestamp_sub_std" =>
       /\ timestamp_total(result.val) <= timestamp_total(self)
       /\ ExactSecondsAfterSub < I64_MIN => result.val.seconds = I64_MIN

\* the same for standard Durations of at most i64::MAX seconds
C25_UpToI64Max ==
  rhs.secs <= I64_MAX =>
    /\ pc = "timestamp_add_std" =>
         /\ timestamp_total(result.val) >= timestamp_total(self)
         /\ ExactSecondsAfterAdd > I64_MAX => result.val.seconds = I64_MAX
    /\ pc = "timestamp_sub_std" =>
         /\ timestamp_total(result.val) <= timestamp_total(self)
         /\ ExactSecondsAfterSub < I64_MIN => result.val.seconds = I64_MIN

(***************************************************************************)
(* TimeOfDay.  The nanos keep the scaled base NANOS_PER_SEC; the sum of    *)
(* nanos_since_midnight stays below one day of nanos, far inside an i64.   *)
(***************************************************************************)
NANOS_PER_MINUTE == NANOS_PER_SEC * 60
NANOS_PER_HOUR == NANOS_PER_MINUTE * 60

MkTime(h, m, s, n) == [hours |-> h, minutes |-> m, seconds |-> s, nanos |-> n]

validate_time_of_day(hours, minutes, seconds, nanos) ==
  IF ~(hours >= 0 /\ hours <= 23) THEN Err("InvalidHours")
  ELSE IF ~(minutes >= 0 /\ minutes <= 59) THEN Err("InvalidMinutes")
  ELSE IF ~(seconds >= 0 /\ seconds <= 59) THEN Err("InvalidSeconds")
  ELSE IF ~(nanos >= 0 /\ nanos <= NANOS_PER_SEC - 1) THEN Err("InvalidNanos")
  ELSE Some("unit")

\* the sum with the minutes weighted like seconds
nanos_since_midnight_flat(t) ==
  t.hours * NANOS_PER_HOUR + t.minutes * NANOS_PER_SEC
    + t.seconds * NANOS_PER_SEC + t.nanos

nanos_since_midnight(t) ==
  t.hours * NANOS_PER_HOUR + t.minutes * NANOS_PER_MINUTE
    + t.seconds * NANOS_PER_SEC + t.nanos

time_of_day_cmp(a, b) == cmp(nanos_since_midnight(a), nanos_since_midnight(b))

time_of_day_partial_cmp(a, b) == Some(time_of_day_cmp(a, b))

\* field values inside and just outside every range
SampleTimeFields ==
  [hours : {-1, 0, 1, 12, 23, 24}, minutes : {-1, 0, 1, 59, 60},
   seconds : {-1, 0, 1, 59, 60}, nanos : -1 .. NANOS_PER_SEC]

\* the values TimeOfDay::new accepts
AcceptedTimes ==
  {t \in SampleTimeFields :
     validate_time_of_day(t.hours, t.minutes, t.seconds, t.nanos).ok}

InitTimeOfDay ==
  /\ pc = "start"
  /\ build = "release"   \* no overflow is possible on accepted values
  /\ self \in AcceptedTimes
  /\ rhs \in AcceptedTimes
  /\ result = NoResult

TimeOfDayPartialCmp ==
  /\ pc = "start"
  /\ result' = time_of_day_partial_cmp(self, rhs)
  /\ pc' = "time_of_day_partial_cmp"
  /\ UNCHANGED <<build, self, rhs>>

\* Ord::cmp; the Ordering returned is recorded as Some(ordering)
TimeOfDayCmp ==
  /\ pc = "start"
  /\ result' = Some(time_of_day_cmp(self, rhs))
  /\ pc' = "time_of_day_cmp"
  /\ UNCHANGED <<build, self, rhs>>

NextTimeOfDay == TimeOfDayPartialCmp \/ TimeOfDayCmp

SpecTimeOfDay == InitTimeOfDay /\ [][NextTimeOfDay]_vars

\* hours*3600 + minutes*60 + seconds, in nanos, plus the nanos
SinceMidnight(t) ==
  ((t.hours * 60 + t.minutes) * 60 + t.seconds) * NANOS_PER_SEC + t.nanos

InTimeRanges(t) ==
  /\ t.hours \in 0 .. 23 /\ t.minutes \in 0 .. 59
  /\ t.seconds \in 0 .. 59 /\ t.nanos \in 0 .. (NANOS_PER_SEC - 1)

\* C26: on the values TimeOfDay::new accepts, partial_cmp always returns
\* Some, cmp orders by the nanoseconds since midnight, which is the
\* lexicographic order of (hours, minutes, seconds, nanos), and cmp is Equal
\* only for identical fields.
C26_TimeOfDayTotalOrder ==
  /\ pc \in {"time_of_day_partial_cmp", "time_of_day_cmp"} =>
       /\ InTimeRanges(self) /\ InTimeRanges(rhs)
       /\ result.ok
       /\ result.val = cmp(SinceMidnight(self), SinceMidnight(rhs))
       /\ result.val = LexCmp(<<self.hours, self.minutes, self.seconds, self.nanos>>,
                              <<rhs.hours, rhs.minutes, rhs.seconds, rhs.nanos>>)
       /\ result.val = "Equal" <=> self = rhs

\* the last instant of an hour was compared with the start of the next
C26_Witness ==
  /\ pc = "time_of_day_cmp"
  /\ self = MkTime(0, 59, 59, NANOS_PER_SEC - 1)
  /\ rhs = MkTime(1, 0, 0, 0)
  /\ result = Some("Less")

(***************************************************************************)
(* Interval                                                                *)
(***************************************************************************)
\* Ord for Timestamp: the order of the pairs (seconds, nanos)
timestamp_cmp(a, b) == then_with(cmp(a.seconds, b.seconds), cmp(a.nanos, b.nanos))

\* an Interval; each bound is an Option<Timestamp>
MkInterval(start, end) == [start_time |-> start, end_time |-> end]

validate_interval(start, end) ==
  IF start.ok /\ end.ok /\ timestamp_cmp(end.val, start.val) = "Less"
    THEN Err("EndTimeBeforeStartTime")
    ELSE Some("unit")

interval_is_valid(iv) == validate_interval(iv.start_time, iv.end_time).ok

interval_is_empty(iv) ==
  iv.start_time.ok /\ iv.end_time.ok /\ iv.start_time.val = iv.end_time.val

\* i64 `-`: panics when overflow checks are on, wraps otherwise
sub_i64(bld, a, b) ==
  IF FitsI64(a - b) THEN Some(a - b)
  ELSE IF bld = "debug" THEN Panic
  ELSE Some(WrapI64(a - b))

\* i64 `+`: panics when overflow checks are on, wraps otherwise
add_i64(bld, a, b) ==
  IF FitsI64(a + b) THEN Some(a + b)
  ELSE IF bld = "debug" THEN Panic
  ELSE Some(WrapI64(a + b))

\* TryFrom<Interval> for Duration
interval_try_into_duration(bld, iv) ==
  IF ~(iv.start_time.ok /\ iv.end_time.ok) THEN Err("ConversionError")
  ELSE
    LET start == iv.start_time.val
        end == iv.end_time.val
        seconds_diff == sub_i64(bld, end.seconds, start.seconds)
        nanos_diff == end.nanos - start.nanos
    IN IF ~seconds_diff.ok THEN Panic
       ELSE IF nanos_diff < 0
         THEN LET borrowed == sub_i64(bld, seconds_diff.val, 1)
              IN IF ~borrowed.ok THEN Panic
                 ELSE Some(Dur(borrowed.val, nanos_diff + NANOS_PER_SEC))
       ELSE IF nanos_diff >= NANOS_PER_SEC
         THEN LET carried == add_i64(bld, seconds_diff.val, 1)
              IN IF ~carried.ok THEN Panic
                 ELSE Some(Dur(carried.val, nanos_diff - NANOS_PER_SEC))
       ELSE Some(Dur(seconds_diff.val, nanos_diff))

interval_partial_cmp(bld, a, b) ==
  IF ~interval_is_valid(a) \/ ~interval_is_valid(b) THEN None
  ELSE IF interval_is_empty(a)
    THEN IF interval_is_empty(b) THEN Some("Equal") ELSE Some("Less")
  ELSE IF interval_is_empty(b) THEN Some("Greater")
  ELSE
    LET self_dur == interval_try_into_duration(bld, a)
        other_dur == interval_try_into_duration(bld, b)
    IN IF self_dur = Panic \/ other_dur = Panic THEN Panic
       ELSE IF self_dur.ok /\ other_dur.ok
         THEN duration_partial_cmp(self_dur.val, other_dur.val)
       ELSE IF self_dur.ok THEN Some("Less")
       ELSE IF other_dur.ok THEN Some("Greater")
       ELSE Some("Equal")

\* bounds at and between the extremes of the seconds, or missing
SampleBounds ==
  {None} \cup {Some(Ts(s, n)) : s \in {I64_MIN, -1, 0, 1, I64_MAX},
                               n \in {0, NANOS_PER_SEC - 1}}

SampleIntervals == [start_time : SampleBounds, end_time : SampleBounds]

InitInterval ==
  /\ pc = "start"
  /\ build \in Builds    \* the subtraction of the seconds depends on the overflow checks
  /\ self \in SampleIntervals
  /\ rhs \in SampleIntervals
  /\ result = NoResult

IntervalPartialCmp ==
  /\ pc = "start"
  /\ result' = interval_partial_cmp(build, self, rhs)
  /\ pc' = "interval_partial_cmp"
  /\ UNCHANGED <<build, self, rhs>>

NextInterval == IntervalPartialCmp

SpecInterval == InitInterval /\ [][NextInterval]_vars

Bounded(iv) == iv.start_time.ok /\ iv.end_time.ok

\* both bounds present and the end before the start
InvalidInterval(iv) ==
  Bounded(iv) /\ timestamp_total(iv.end_time.val) < timestamp_total(iv.start_time.val)

EmptyInterval(iv) == Bounded(iv) /\ iv.start_time.val = iv.end_time.val

\* the exact span of a bounded interval, in nanoseconds
Span(iv) == timestamp_total(iv.end_time.val) - timestamp_total(iv.start_time.val)

\* the ranking C27 describes
SpanRanking(a, b) ==
  IF InvalidInterval(a) \/ InvalidInterval(b) THEN None
  ELSE IF EmptyInterval(a) THEN (IF EmptyInterval(b) THEN Some("Equal") ELSE Some("Less"))
  ELSE IF EmptyInterval(b) THEN Some("Greater")
  ELSE IF Bounded(a) /\ Bounded(b) THEN Some(cmp(Span(a), Span(b)))
  ELSE IF Bounded(a) THEN Some("Less")
  ELSE IF Bounded(b) THEN Some("Greater")
  ELSE Some("Equal")

\* C27: Interval partial_cmp ranks valid intervals by span: an invalid
\* interval is not comparable; an empty one is Equal to an empty one and Less
\* than every non-empty one; two bounded non-empty intervals are ordered by
\* their exact span for all Timestamp bounds, the 64-bit extremes included; a
\* bounded interval is Less than one missing a bound; two intervals missing a
\* bound are Equal.
C27_IntervalRanksBySpan ==
  pc = "interval_partial_cmp" => result = SpanRanking(self, rhs)

\* the same when the difference of the seconds of the bounds fits in an i64
C27_SpansThatFit ==
  (/\ pc = "interval_partial_cmp"
   /\ \A iv \in {self, rhs} :
        Bounded(iv) => /\ FitsI64(iv.end_time.val.seconds - iv.start_time.val.seconds)
                       /\ FitsI64(iv.end_time.val.seconds - iv.start_time.val.seconds - 1))
    => result = SpanRanking(self, rhs)

(***************************************************************************)
(* Fractions: overflow of the exact result, and corrupted operands         *)
(***************************************************************************)
\* num/den (den # 0) in lowest terms with a positive denominator fits in
\* two i64
ReducedFits(num, den) ==
  LET g == gcd(num, den)
      n == IF den < 0 THEN -(num \div g) ELSE num \div g
      d == Abs(den) \div g
  IN FitsI64(n) /\ FitsI64(d)

\* C28: for Fractions a and b created by Fraction::new, checked_add,
\* checked_sub, checked_mul and checked_div return Overflow only when the
\* exact result in lowest terms with a positive denominator has a numerator
\* or denominator outside the i64 range (i64::MAX/2 + i64::MAX/2 is
\* i64::MAX/1).
C28_OverflowOnlyWhenResultDoesNotFit ==
  (BothFromNew /\ result = Err("Overflow")) =>
    /\ pc = "fraction_checked_add" =>
         ~ReducedFits(self.numerator * rhs.denominator + rhs.numerator * self.denominator,
                      self.denominator * rhs.denominator)
    /\ pc = "fraction_checked_sub" =>
         ~ReducedFits(self.numerator * rhs.denominator - rhs.numerator * self.denominator,
                      self.denominator * rhs.denominator)
    /\ pc = "fraction_checked_mul" =>
         ~ReducedFits(self.numerator * rhs.numerator,
                      self.denominator * rhs.denominator)
    /\ pc = "fraction_checked_div" =>
         ~ReducedFits(self.numerator * rhs.denominator,
                      self.denominator * rhs.numerator)

\* the state in which i64::MAX/2 + i64::MAX/2 has returned Overflow
C28_ExampleOverflows ==
  /\ pc = "fraction_checked_add"
  /\ self = Frac(I64_MAX, 2) /\ rhs = Frac(I64_MAX, 2)
  /\ result = Err("Overflow")

\* C30: whenever either operand of checked_add, checked_sub, checked_mul or
\* checked_div has denominator 0, the operation returns a typed error
\* (ZeroDenominator, Overflow or Undefined), never Ok, and does not panic.
C30_CorruptedNeverYieldsValue ==
  (/\ pc \in {"fraction_checked_add", "fraction_checked_sub",
              "fraction_checked_mul", "fraction_checked_div"}
   /\ (self.denominator = 0 \/ rhs.denominator = 0)) =>
     result \in {Err("ZeroDenominator"), Err("Overflow"), Err("Undefined")}

\* the same for every operation but the division by a corrupted divisor
C30_ExceptCorruptedDivisor ==
  (/\ pc \in {"fraction_checked_add", "fraction_checked_sub",
              "fraction_checked_mul", "fraction_checked_div"}
   /\ (self.denominator = 0 \/ rhs.denominator = 0)
   /\ ~(pc = "fraction_checked_div" /\ rhs.denominator = 0 /\ self.denominator # 0)) =>
     result \in {Err("ZeroDenominator"), Err("Overflow"), Err("Undefined")}

(***************************************************************************)
(* DateTime: the instants denoted with fixed offsets                       *)
(***************************************************************************)
\* the days from 1 January of year 1 to 1 January of `year`
DaysBeforeYear(year) ==
  LET y == year - 1
  IN 365 * y + (y \div 4) - (y \div 100) + (y \div 400)

RECURSIVE DaysBeforeMonth(_, _)
\* the days of `year` before its month `month`
DaysBeforeMonth(month, year) ==
  IF month <= 1 THEN 0
  ELSE DaysBeforeMonth(month - 1, year) + MonthLength(month - 1, year)

\* the instant a DateTime with a UTC offset denotes, its local date and time
\* minus its offset, in nanos counted from the start of the year 2023
Instant(t) ==
  LET days == DaysBeforeYear(t.year) - DaysBeforeYear(2023)
                + DaysBeforeMonth(t.month, t.year) + (t.day - 1)
      secs == ((days * 24 + t.hours) * 60 + t.minutes) * 60 + t.seconds
  IN secs * NANOS_PER_SEC + t.nanos - duration_total_nanos(t.time_offset.offset)

\* C29: for two valid DateTimes with non-zero years that both carry a UTC
\* offset, if the instant of a is strictly earlier than the instant of b then
\* a.partial_cmp(b) is never Greater, and if the instants are equal it is
\* never Less or Greater.
C29_NeverWrongChronology ==
  (/\ pc = "datetime_partial_cmp"
   /\ AcceptedDateTime(self) /\ AcceptedDateTime(rhs)
   /\ self.year # 0 /\ rhs.year # 0
   /\ self.time_offset.kind = "utc" /\ rhs.time_offset.kind = "utc") =>
     /\ Instant(self) < Instant(rhs) => result # Some("Greater")
     /\ Instant(self) = Instant(rhs) => result \notin {Some("Less"), Some("Greater")}

\* the same for two DateTimes with the same offset
C29_SameOffset ==
  (/\ pc = "datetime_partial_cmp"
   /\ AcceptedDateTime(self) /\ AcceptedDateTime(rhs)
   /\ self.year # 0 /\ rhs.year # 0
   /\ self.time_offset.kind = "utc" /\ rhs.time_offset = self.time_offset) =>
     /\ Instant(self) < Instant(rhs) => result # Some("Greater")
     /\ Instant(self) = Instant(rhs) => result \notin {Some("Less"), Some("Greater")}

====
